---------------------------- MODULE Spec2Model ----------------------------
(***************************************************************************)
(* Two-tier hierarchical blockchain (GO-Blockchain): PoW mining race,      *)
(* PBFT vote collection, boot election, chain watcher, anchoring and the   *)
(* verified query path.  One node model, several scenario specifications.  *)
(*                                                                         *)
(* Abstractions used throughout:                                           *)
(*  - an address "host:port" is a natural number; the order of the         *)
(*    naturals stands for the lexicographic order of the address strings;  *)
(*  - sha256 is collision free: a digest is the tagged pre-image;          *)
(*  - the number of leading '0' hex characters of a PoW hash is carried    *)
(*    by the nonce that produced it.                                       *)
(***************************************************************************)
EXTENDS Integers, Sequences, FiniteSets, TLC

VARIABLES
    peers,            \* node -> sequence of peer addresses      (var peers []string)
    store,            \* node -> [index -> block]                (LevelDB block_<i>)
    height,           \* node -> height_latest meta (NoHeight when the key is absent)
    pending,          \* node -> sequence of records             (ch.pending)
    isMining,         \* node -> atomic.Bool
    miningStop,       \* node -> atomic.Bool
    GlobalDifficulty, \* node -> int
    tasks,            \* node -> set of running mining goroutines
    recv,             \* node -> set of /receiveBlock handlers past the duplicate check
    net,              \* set of HTTP requests in flight
    submitted,        \* records handed in by clients so far
    ev,               \* answer of the last handler that answered: <<handler, outcome>>
    boot,             \* node -> address of the boot node it knows (var boot string)
    peerPubKeys,      \* node -> [address -> public key]
    viewStates,       \* node -> [view -> viewState]
    consensusInProgress, \* node -> atomic.Bool
    foreign,          \* number of votes posted by clients that are not the node program
    isBoot,           \* node -> atomic.Bool
    crashed,          \* nodes whose process is gone
    watch,            \* node -> boot address read by the watcher tick under way
    meta,             \* node -> chain id kept under the meta key of the store
    cw,               \* node -> position and locals of the chain watcher cycle
    mined,            \* <<miner, index>> of the nonce searches that succeeded so far
    anchorMap,        \* upper node -> [provider id -> AnchorInfo]   (var anchorMap)
    anchorDb,         \* upper node -> [provider id -> persisted anchor_<id> entry]
    cpBootMap,        \* upper node -> [provider id -> boot address of that provider]
    reply,            \* status and body of the last HTTP answer
    misses,           \* node -> consecutive failed probes counted by the boot watcher
    kv                \* node -> [key -> value] of the store besides block_<i> and height_latest

powVars == <<isMining, miningStop, GlobalDifficulty, tasks, recv>>
pbftVars == <<viewStates, consensusInProgress, foreign>>

bootVars == <<isBoot, crashed, watch>>
forkVars == <<meta, cw, mined>>
upperVars == <<anchorMap, anchorDb, cpBootMap, reply>>
laterVars == <<forkVars, upperVars, misses, kv>>

nonPow == <<boot, peerPubKeys, pbftVars, bootVars, laterVars>>
nonPbft == <<powVars, bootVars, laterVars>>
nonBoot == <<store, pending, submitted, ev, peerPubKeys, powVars, pbftVars, laterVars>>

vars == <<peers, store, height, pending, net, submitted, ev, boot, peerPubKeys,
          powVars, pbftVars, bootVars, forkVars, upperVars, misses, kv>>

-----------------------------------------------------------------------------
(* Bounds *)
Records == {1}          \* content records a client may hand in
ClientNodes == {1}      \* nodes whose API the client talks to
ElapsedVals == {10}     \* seconds a successful nonce search may take
PowNodes == {1, 2, 3}

(* Program constants *)
GenesisDifficulty == 4
DiffStandardTime == 20
DifficultyCeiling == 8

ZeroHash == <<"zero64">>
EmptyString == <<>>

-----------------------------------------------------------------------------
(* CryptoCore *)

sha256Hex(x) == <<"sha256", x>>

pairHash(left, right) == sha256Hex(<<"pair", left, right>>)

hashContentRecord(r) == sha256Hex(<<"record", r>>)

NextLevel(level) ==
    [i \in 1..((Len(level) + 1) \div 2) |->
        IF 2 * i <= Len(level)
        THEN pairHash(level[2 * i - 1], level[2 * i])
        ELSE pairHash(level[2 * i - 1], level[2 * i - 1])]

RECURSIVE ReduceLevels(_)
ReduceLevels(level) ==
    IF Len(level) = 1 THEN level[1] ELSE ReduceLevels(NextLevel(level))

merkleRootHex(leaves) ==
    IF Len(leaves) = 0 THEN EmptyString ELSE ReduceLevels(leaves)

LeafHashes(entries) == [i \in 1..Len(entries) |-> hashContentRecord(entries[i])]

computeHashForPoW(header) ==
    sha256Hex(<<"hdr", header.index, header.prev_hash, header.merkle_root,
                header.difficulty, header.nonce>>)

LeadingZeros(hash) ==
    IF Len(hash) = 2 THEN (IF hash[2][1] = "hdr" THEN hash[2][6][2] ELSE 0) ELSE 0

validHash(hash, difficulty) == LeadingZeros(hash) >= difficulty

-----------------------------------------------------------------------------
(* Store *)

Nodes == DOMAIN peers

EmptyMap == [j \in {} |-> 0]

Put(f, i, b) == [j \in (DOMAIN f) \cup {i} |-> IF j = i THEN b ELSE f[j]]

HasBlock(n, i) == i \in DOMAIN store[n]

getLatestHeight(n) == height[n]

SeqToSet(s) == {s[i] : i \in 1..Len(s)}

Min(S) == CHOOSE x \in S : \A y \in S : x <= y

RECURSIVE SortedSeq(_)
SortedSeq(S) == IF S = {} THEN <<>> ELSE <<Min(S)>> \o SortedSeq(S \ {Min(S)})

mineGenesisBlock(cpID) ==
    LET header == [index |-> 0, prev_hash |-> ZeroHash,
                   merkle_root |-> sha256Hex(<<"empty">>),
                   difficulty |-> GenesisDifficulty,
                   nonce |-> <<0, GenesisDifficulty>>]
    IN [index |-> 0, cp_id |-> cpID, prev_hash |-> ZeroHash, entries |-> <<>>,
        merkle_root |-> header.merkle_root, nonce |-> header.nonce,
        difficulty |-> GenesisDifficulty, block_hash |-> computeHashForPoW(header),
        elapsed |-> 0]

-----------------------------------------------------------------------------
(* Ledger: pending pool *)

appendPending(n, entries) == pending' = [pending EXCEPT ![n] = @ \o entries]

pendingIsEmpty(n) == Len(pending[n]) = 0

\* a client hands record r to node n
Submit(n, r) ==
    /\ r \notin submitted
    /\ submitted' = submitted \cup {r}
    /\ appendPending(n, <<r>>)
    /\ UNCHANGED <<peers, store, height, net, ev, boot, peerPubKeys, powVars, pbftVars,
                   bootVars, laterVars>>

-----------------------------------------------------------------------------
(* Consensus (PoW) *)

Targets(n) == SeqToSet(peers[n]) \cup {n}

sendMiningSignal(n, entries) ==
    {[type |-> "mine", to |-> d, entries |-> entries] : d \in Targets(n)}

\* one tick of startMiningWatcher: getPending() drains the pool
startMiningWatcher(n) ==
    /\ ~(isMining[n] \/ pendingIsEmpty(n))
    /\ pending' = [pending EXCEPT ![n] = <<>>]
    /\ net' = net \cup sendMiningSignal(n, pending[n])
    /\ UNCHANGED <<peers, store, height, isMining, miningStop, GlobalDifficulty,
                   tasks, recv, submitted, ev>>
    /\ UNCHANGED nonPow

\* mineBlock up to the nonce loop: the header composed on the current tip
mineBlockHeader(n, entries) ==
    LET prev == store[n][getLatestHeight(n)]
    IN [index |-> prev.index + 1, prev_hash |-> prev.block_hash,
        merkle_root |-> merkleRootHex(LeafHashes(entries)),
        difficulty |-> GlobalDifficulty[n], nonce |-> <<0, 0>>]

\* POST /mine/start: the CAS on isMining, then the goroutine enters mineBlock,
\* which clears miningStop and loads the tip
handleMineStart(n, m) ==
    /\ m \in net /\ m.type = "mine" /\ m.to = n
    /\ net' = net \ {m}
    /\ IF Len(m.entries) = 0 \/ isMining[n]
       THEN UNCHANGED <<isMining, miningStop, tasks>>
       ELSE /\ miningStop' = [miningStop EXCEPT ![n] = FALSE]
            /\ IF getLatestHeight(n) < 0 \/ ~HasBlock(n, getLatestHeight(n))
               THEN UNCHANGED <<isMining, tasks>>
               ELSE /\ isMining' = [isMining EXCEPT ![n] = TRUE]
                    /\ tasks' = [tasks EXCEPT ![n] = @ \cup
                           {[entries |-> m.entries,
                             header |-> mineBlockHeader(n, m.entries)]}]
    /\ UNCHANGED <<peers, store, height, pending, GlobalDifficulty,
                   recv, submitted, ev>>
    /\ UNCHANGED nonPow

\* the nonce loop polls miningStop and returns empty on abort
mineBlockAbort(n, t) ==
    /\ t \in tasks[n]
    /\ miningStop[n]
    /\ tasks' = [tasks EXCEPT ![n] = @ \ {t}]
    /\ UNCHANGED <<peers, store, height, pending, isMining, miningStop,
                   GlobalDifficulty, recv, net, submitted, ev>>
    /\ UNCHANGED nonPow

ElapsedOf(n, i) == IF HasBlock(n, i) THEN store[n][i].elapsed ELSE 0

adjustDifficulty(n, idx, elapsed) ==
    LET e0 == IF idx > 2 THEN ElapsedOf(n, idx - 2) ELSE 0
        e1 == IF idx > 2 THEN ElapsedOf(n, idx - 1) ELSE 0
        sum == e0 + e1 + elapsed
        d == GlobalDifficulty[n]
    IN  \* ratio = (sum / 3) / DiffStandardTime ; ratio < 0.85 ; ratio > 1.25
        IF sum * 100 < 85 * 3 * DiffStandardTime
        THEN (IF d + 1 = DifficultyCeiling THEN d ELSE d + 1)
        ELSE IF sum * 100 > 125 * 3 * DiffStandardTime
        THEN (IF d - 1 < 1 THEN 1 ELSE d - 1)
        ELSE d

broadcastBlock(n, header, hash, entries, difficulty, elapsed) ==
    {[type |-> "block", to |-> d, header |-> header, hash |-> hash,
      entries |-> entries, difficulty |-> difficulty, elapsed |-> elapsed,
      winner |-> n] : d \in Targets(n)}

\* the nonce loop finds a hash with the required prefix; the goroutine of
\* handleMineStart then adjusts the difficulty and broadcasts the block
mineBlockFound(n, t, elapsed) ==
    /\ t \in tasks[n]
    /\ ~miningStop[n]
    /\ LET header == [t.header EXCEPT !.nonce = <<n, t.header.difficulty>>]
           hash == computeHashForPoW(header)
           d == adjustDifficulty(n, header.index, elapsed)
       IN /\ validHash(hash, header.difficulty)
          /\ GlobalDifficulty' = [GlobalDifficulty EXCEPT ![n] = d]
          /\ net' = net \cup broadcastBlock(n, header, hash, t.entries, d, elapsed)
    /\ tasks' = [tasks EXCEPT ![n] = @ \ {t}]
    /\ UNCHANGED <<peers, store, height, pending, isMining, miningStop, recv, submitted, ev>>
    /\ UNCHANGED nonPow

\* saveBlockToDB + setLatestHeight
saveBlockToDB(n, lb) ==
    /\ store' = [store EXCEPT ![n] = Put(@, lb.index, lb)]
    /\ height' = [height EXCEPT ![n] = lb.index]

onBlockReceivedOk(n, lb) ==
    /\ HasBlock(n, lb.index - 1)
    /\ lb.prev_hash = store[n][lb.index - 1].block_hash
    /\ validHash(lb.block_hash, lb.difficulty)

\* onBlockReceived: stop mining, check the link to the stored predecessor and
\* the PoW prefix, persist and move the height to the block's index
onBlockReceived(n, lb) ==
    /\ miningStop' = [miningStop EXCEPT ![n] = TRUE]
    /\ IF onBlockReceivedOk(n, lb)
       THEN saveBlockToDB(n, lb)
       ELSE UNCHANGED <<store, height>>

addBlockToChain(n, header, hash, elapsed, entries) ==
    onBlockReceived(n, [index |-> header.index, cp_id |-> store[n][0].cp_id,
                        prev_hash |-> header.prev_hash, entries |-> entries,
                        merkle_root |-> header.merkle_root, nonce |-> header.nonce,
                        difficulty |-> header.difficulty, block_hash |-> hash,
                        elapsed |-> elapsed])

\* receiveBlock as in the first PoW revision: no duplicate-index check
receiveBlockNoDuplicateCheck(n, m) ==
    /\ m \in net /\ m.type = "block" /\ m.to = n
    /\ net' = net \ {m}
    /\ miningStop' = [miningStop EXCEPT ![n] = TRUE]
    /\ IF ~validHash(m.hash, m.header.difficulty)
       THEN /\ ev' = <<"receiveBlock", "invalid">>
            /\ UNCHANGED recv
       ELSE /\ recv' = [recv EXCEPT ![n] = @ \cup {m}]
            /\ UNCHANGED ev
    /\ UNCHANGED <<peers, store, height, pending, isMining, GlobalDifficulty,
                   tasks, submitted>>
    /\ UNCHANGED nonPow

\* POST /receiveBlock, first part: duplicate-index check, stop flag, PoW prefix
receiveBlock(n, m) ==
    /\ m \in net /\ m.type = "block" /\ m.to = n
    /\ net' = net \ {m}
    /\ IF HasBlock(n, m.header.index)
       THEN /\ ev' = <<"receiveBlock", "duplicate">>
            /\ UNCHANGED <<miningStop, recv>>
       ELSE /\ miningStop' = [miningStop EXCEPT ![n] = TRUE]
            /\ IF ~validHash(m.hash, m.header.difficulty)
               THEN /\ ev' = <<"receiveBlock", "invalid">>
                    /\ UNCHANGED recv
               ELSE /\ recv' = [recv EXCEPT ![n] = @ \cup {m}]
                    /\ UNCHANGED ev
    /\ UNCHANGED <<peers, store, height, pending, isMining, GlobalDifficulty,
                   tasks, submitted>>
    /\ UNCHANGED nonPow

\* POST /receiveBlock, second part: addBlockToChain, difficulty of the winner,
\* isMining cleared
receiveBlockAppend(n, m) ==
    /\ m \in recv[n]
    /\ recv' = [recv EXCEPT ![n] = @ \ {m}]
    /\ addBlockToChain(n, m.header, m.hash, m.elapsed, m.entries)
    /\ GlobalDifficulty' = [GlobalDifficulty EXCEPT ![n] =
           IF m.difficulty # m.header.difficulty THEN m.difficulty ELSE @]
    /\ isMining' = [isMining EXCEPT ![n] = FALSE]
    /\ ev' = <<"receiveBlock", "accepted">>
    /\ UNCHANGED <<peers, pending, tasks, net, submitted>>
    /\ UNCHANGED nonPow

-----------------------------------------------------------------------------
(* PoW network of three nodes that share one genesis block *)

Init ==
    /\ peers = [n \in PowNodes |-> SortedSeq(PowNodes \ {n})]
    /\ store = [n \in PowNodes |-> [i \in {0} |-> mineGenesisBlock(1)]]
    /\ height = [n \in PowNodes |-> 0]
    /\ pending = [n \in PowNodes |-> <<>>]
    /\ isMining = [n \in PowNodes |-> FALSE]
    /\ miningStop = [n \in PowNodes |-> FALSE]
    /\ GlobalDifficulty = [n \in PowNodes |-> GenesisDifficulty + 1]
    /\ tasks = [n \in PowNodes |-> {}]
    /\ recv = [n \in PowNodes |-> {}]
    /\ net = {}
    /\ submitted = {}
    /\ ev = <<"init", "">>
    /\ boot = [n \in PowNodes |-> 1]
    /\ peerPubKeys = EmptyMap
    /\ viewStates = EmptyMap
    /\ consensusInProgress = EmptyMap
    /\ foreign = 0
    /\ isBoot = EmptyMap
    /\ crashed = {}
    /\ watch = EmptyMap
    /\ meta = EmptyMap
    /\ cw = EmptyMap
    /\ mined = {}
    /\ anchorMap = EmptyMap
    /\ anchorDb = EmptyMap
    /\ cpBootMap = EmptyMap
    /\ reply = <<>>
    /\ misses = EmptyMap
    /\ kv = EmptyMap

Next ==
    \/ \E n \in ClientNodes : \E r \in Records : Submit(n, r)
    \/ \E n \in Nodes : startMiningWatcher(n)
    \/ \E n \in Nodes : \E m \in net : handleMineStart(n, m)
    \/ \E n \in Nodes : \E t \in tasks[n] : mineBlockAbort(n, t)
    \/ \E n \in Nodes : \E t \in tasks[n] : \E e \in ElapsedVals : mineBlockFound(n, t, e)
    \/ \E n \in Nodes : \E m \in net : receiveBlock(n, m)
    \/ \E n \in Nodes : \E m \in recv[n] : receiveBlockAppend(n, m)

Spec == Init /\ [][Next]_vars

\* every request was answered and every mining goroutine returned
Quiescent ==
    /\ submitted = Records
    /\ net = {}
    /\ \A n \in Nodes : pending[n] = <<>> /\ tasks[n] = {} /\ recv[n] = {}

\* C1: one record pending on three nodes at height 0: once /mine/start and
\* every block broadcast have been handled, the three nodes have height 1 and
\* the same block_hash at index 1.
C1_RoundConverges ==
    Quiescent =>
        /\ \A n \in Nodes : height[n] = 1 /\ HasBlock(n, 1)
        /\ \A a, b \in Nodes :
              HasBlock(a, 1) /\ HasBlock(b, 1) =>
                  store[a][1].block_hash = store[b][1].block_hash

C10_PrevLinked ==
    \A n \in Nodes : \A i \in DOMAIN store[n] :
        i > 0 => /\ HasBlock(n, i - 1)
                 /\ store[n][i].prev_hash = store[n][i - 1].block_hash

\* C26: a block a node has persisted at an index is the block found at that
\* index ever after, also when two broadcast blocks for one index are
\* handled side by side.
C26_StoredBlockFixed ==
    [][\A n \in Nodes : \A i \in DOMAIN store[n] :
          i \in DOMAIN store'[n] /\ store'[n][i] = store[n][i]]_vars

\* C39: on one node at most one append is between its reading of the chain
\* and its write at any moment.
C39_AppendsSerialized ==
    \A n \in Nodes : Cardinality(recv[n]) <= 1

-----------------------------------------------------------------------------
(* Keys and signatures.  A signature is the pair of its signer and of the   *)
(* digest that was signed; a public key names its owner.                    *)

PubKeyOf(a) == <<"pub", a>>

\* sha256 of the string root + "|" + ts, signed with the node's private key
makeAnchorSignature(signer, root, ts) ==
    [signer |-> signer, digest |-> sha256Hex(<<"msg", root, ts>>)]

\* true when sig was made over exactly these digest bytes by the owner of pub
verifyECDSA(pub, digest, sig) ==
    /\ pub = PubKeyOf(sig.signer)
    /\ sig.digest = digest

\* hex.DecodeString(hash): the raw digest bytes a hex string stands for
hexDecode(hash) == <<"bytes", hash>>

\* sha256.Sum256([]byte(hash)): the digest of the hex string itself
sha256OfString(hash) == sha256Hex(<<"str", hash>>)

-----------------------------------------------------------------------------
(* Consensus (PBFT), one viewState per view *)

HosID == 1
SystemProposer == 0
PbftNodes == {1, 2, 3, 4}
ForeignSigners == {4}
MaxForeign == 1

computeHash(b) ==
    sha256Hex(<<"hdr", b.index, b.hos_id, b.prev_hash, b.merkle_root, b.proposer>>)

createGenesisBlock(hosID) ==
    LET g == [index |-> 0, hos_id |-> hosID, prev_hash |-> ZeroHash, entries |-> <<>>,
              merkle_root |-> EmptyString, proposer |-> SystemProposer,
              signatures |-> <<>>, block_hash |-> EmptyString]
    IN [g EXCEPT !.block_hash = computeHash(g)]

NoBlock == [index |-> 0, hos_id |-> 0, prev_hash |-> EmptyString, entries |-> <<>>,
            merkle_root |-> EmptyString, proposer |-> 0, signatures |-> <<>>,
            block_hash |-> EmptyString]

NewView == [Phase |-> "Idle", Block |-> NoBlock, Prepare |-> EmptyMap,
            Commit |-> EmptyMap, Finalized |-> FALSE]

getOrCreateView(n, view) ==
    IF view \in DOMAIN viewStates[n] THEN viewStates[n][view] ELSE NewView

deleteView(f, view) == [v \in (DOMAIN f) \ {view} |-> f[v]]

\* voteCollector.add: false when the address has voted already
collectorAdd(c, addr, sig) == IF addr \in DOMAIN c THEN c ELSE Put(c, addr, sig)

collectorCount(c) == Cardinality(DOMAIN c)

collectorAll(c) == [i \in 1..Cardinality(DOMAIN c) |-> c[SortedSeq(DOMAIN c)[i]]]

quorumSize(n) ==
    LET cnt == Len(peers[n]) + 1
        f == (cnt - 1) \div 3
    IN 2 * f + 1

broadcast(n, msg) == {[msg EXCEPT !.to = d] : d \in Targets(n)}

createProposedBlock(n, entries) ==
    LET prev == store[n][getLatestHeight(n)]
        b == [index |-> getLatestHeight(n) + 1, hos_id |-> store[n][0].hos_id,
              prev_hash |-> prev.block_hash, entries |-> entries,
              merkle_root |-> merkleRootHex(LeafHashes(entries)), proposer |-> n,
              signatures |-> <<>>, block_hash |-> EmptyString]
        h == computeHash(b)
    IN [b EXCEPT !.block_hash = h,
                 !.signatures = <<makeAnchorSignature(n, h, EmptyString)>>]

validateLowerBlock(newBlk, prevBlk) ==
    /\ prevBlk.index + 1 = newBlk.index
    /\ prevBlk.block_hash = newBlk.prev_hash
    /\ prevBlk.hos_id = newBlk.hos_id
    /\ merkleRootHex(LeafHashes(newBlk.entries)) = newBlk.merkle_root
    /\ computeHash(newBlk) = newBlk.block_hash

\* the tick of startConsensusWatcher that passes the three guards
startConsensusWatcher(n) ==
    /\ n = boot[n]
    /\ ~consensusInProgress[n]
    /\ ~pendingIsEmpty(n)
    /\ pending' = [pending EXCEPT ![n] = <<>>]
    /\ LET view == getLatestHeight(n) + 1
           vs == getOrCreateView(n, view)
           block == createProposedBlock(n, pending[n])
       IN IF vs.Phase # "Idle"
          THEN /\ viewStates' = [viewStates EXCEPT ![n] = Put(@, view, vs)]
               /\ UNCHANGED <<consensusInProgress, net>>
          ELSE /\ viewStates' = [viewStates EXCEPT ![n] =
                      Put(@, view, [vs EXCEPT !.Block = block, !.Phase = "PrePrepare"])]
               /\ consensusInProgress' = [consensusInProgress EXCEPT ![n] = TRUE]
               /\ net' = net \cup broadcast(n, [type |-> "start", to |-> n,
                                                view |-> view, block |-> block])
    /\ UNCHANGED <<peers, store, height, submitted, ev, boot, peerPubKeys, foreign, nonPbft>>

\* POST /bft/start
handleBftStart(n, m) ==
    /\ m \in net /\ m.type = "start" /\ m.to = n
    /\ net' = (net \ {m}) \cup
         (LET vs == getOrCreateView(n, m.view) IN
          IF /\ vs.Phase = "Idle"
             /\ computeHash(m.block) = m.block.block_hash
             /\ HasBlock(n, getLatestHeight(n))
             /\ validateLowerBlock(m.block, store[n][getLatestHeight(n)])
          THEN broadcast(n, [type |-> "prepare", to |-> n, view |-> m.view, addr |-> n,
                             sig |-> makeAnchorSignature(n, m.block.block_hash, EmptyString),
                             hash |-> m.block.block_hash])
          ELSE {})
    /\ LET vs == getOrCreateView(n, m.view) IN
       viewStates' = [viewStates EXCEPT ![n] = Put(@, m.view,
          IF /\ vs.Phase = "Idle"
             /\ computeHash(m.block) = m.block.block_hash
             /\ HasBlock(n, getLatestHeight(n))
             /\ validateLowerBlock(m.block, store[n][getLatestHeight(n)])
          THEN [vs EXCEPT !.Block = m.block, !.Phase = "Prepare",
                          !.Prepare = collectorAdd(@, n,
                              makeAnchorSignature(n, m.block.block_hash, EmptyString))]
          ELSE vs)]
    /\ UNCHANGED <<peers, store, height, pending, submitted, ev, boot, peerPubKeys,
                   consensusInProgress, foreign, nonPbft>>

\* the checks a vote passes before it reaches the collector
voteAdmitted(n, vs, m) ==
    /\ vs.Block.block_hash = m.hash
    /\ m.addr \in DOMAIN peerPubKeys[n]
    /\ verifyECDSA(peerPubKeys[n][m.addr], hexDecode(m.hash), m.sig)

\* POST /bft/prepare without the test of the hash against the view's block
handleReceivePrepareAnyHash(n, m) ==
    /\ m \in net /\ m.type = "prepare" /\ m.to = n
    /\ LET vs == getOrCreateView(n, m.view)
           added == /\ m.addr \in DOMAIN peerPubKeys[n]
                    /\ verifyECDSA(peerPubKeys[n][m.addr], hexDecode(m.hash), m.sig)
                    /\ m.addr \notin DOMAIN vs.Prepare
           vs1 == IF added THEN [vs EXCEPT !.Prepare = collectorAdd(@, m.addr, m.sig)]
                  ELSE vs
           advance == /\ added
                      /\ collectorCount(vs1.Prepare) >= quorumSize(n)
                      /\ vs1.Phase = "Prepare"
           sig == makeAnchorSignature(n, vs1.Block.block_hash, EmptyString)
       IN /\ viewStates' = [viewStates EXCEPT ![n] = Put(@, m.view,
                 IF advance
                 THEN [vs1 EXCEPT !.Phase = "Commit", !.Commit = collectorAdd(@, n, sig)]
                 ELSE vs1)]
          /\ net' = (net \ {m}) \cup
                 (IF advance
                  THEN broadcast(n, [type |-> "commit", to |-> n, view |-> m.view,
                                     addr |-> n, sig |-> sig,
                                     hash |-> vs1.Block.block_hash])
                  ELSE {})
    /\ UNCHANGED <<peers, store, height, pending, submitted, ev, boot, peerPubKeys,
                   consensusInProgress, foreign, nonPbft>>

\* POST /bft/prepare
handleReceivePrepare(n, m) ==
    /\ m \in net /\ m.type = "prepare" /\ m.to = n
    /\ LET vs == getOrCreateView(n, m.view)
           added == voteAdmitted(n, vs, m) /\ m.addr \notin DOMAIN vs.Prepare
           vs1 == IF added THEN [vs EXCEPT !.Prepare = collectorAdd(@, m.addr, m.sig)]
                  ELSE vs
           advance == /\ added
                      /\ collectorCount(vs1.Prepare) >= quorumSize(n)
                      /\ vs1.Phase = "Prepare"
           sig == makeAnchorSignature(n, vs1.Block.block_hash, EmptyString)
       IN /\ viewStates' = [viewStates EXCEPT ![n] = Put(@, m.view,
                 IF advance
                 THEN [vs1 EXCEPT !.Phase = "Commit", !.Commit = collectorAdd(@, n, sig)]
                 ELSE vs1)]
          /\ net' = (net \ {m}) \cup
                 (IF advance
                  THEN broadcast(n, [type |-> "commit", to |-> n, view |-> m.view,
                                     addr |-> n, sig |-> sig,
                                     hash |-> vs1.Block.block_hash])
                  ELSE {})
    /\ UNCHANGED <<peers, store, height, pending, submitted, ev, boot, peerPubKeys,
                   consensusInProgress, foreign, nonPbft>>

\* at least 2f+1 signatures, each by a different known signer over sha256(block_hash)
verifyConsensusEvidence(n, lb) ==
    LET required == quorumSize(n)
        msgHash == sha256OfString(lb.block_hash)
        known == {n} \cup {a \in SeqToSet(peers[n]) : a \in DOMAIN peerPubKeys[n]}
        keyOf(a) == IF a = n THEN PubKeyOf(n) ELSE peerPubKeys[n][a]
        valid == {a \in known : \E i \in 1..Len(lb.signatures) :
                                   verifyECDSA(keyOf(a), msgHash, lb.signatures[i])}
    IN /\ Len(lb.signatures) >= required
       /\ Cardinality(valid) >= required

\* onBlockReceived of the PBFT ledger: evidence, link to the predecessor, persist
onBlockReceivedPBFT(n, lb) ==
    IF /\ verifyConsensusEvidence(n, lb)
       /\ HasBlock(n, lb.index - 1)
       /\ lb.prev_hash = store[n][lb.index - 1].block_hash
    THEN saveBlockToDB(n, lb)
    ELSE UNCHANGED <<store, height>>

\* POST /bft/commit
handleReceiveCommit(n, m) ==
    /\ m \in net /\ m.type = "commit" /\ m.to = n
    /\ net' = net \ {m}
    /\ LET vs == getOrCreateView(n, m.view)
           added == voteAdmitted(n, vs, m) /\ m.addr \notin DOMAIN vs.Commit
           vs1 == IF added THEN [vs EXCEPT !.Commit = collectorAdd(@, m.addr, m.sig)]
                  ELSE vs
           final == /\ added
                    /\ collectorCount(vs1.Commit) >= quorumSize(n)
                    /\ vs1.Phase = "Commit"
                    /\ ~vs1.Finalized
       IN IF final
          THEN /\ onBlockReceivedPBFT(n, [vs1.Block EXCEPT
                                             !.signatures = collectorAll(vs1.Commit)])
               /\ viewStates' = [viewStates EXCEPT ![n] = deleteView(@, m.view)]
               /\ consensusInProgress' = [consensusInProgress EXCEPT ![n] = FALSE]
          ELSE /\ viewStates' = [viewStates EXCEPT ![n] = Put(@, m.view, vs1)]
               /\ UNCHANGED <<store, height, consensusInProgress>>
    /\ UNCHANGED <<peers, pending, submitted, ev, boot, peerPubKeys, foreign, nonPbft>>

\* a registered peer's operator posts a vote it signed over the raw hash bytes
postVote(a, d, t) ==
    /\ foreign < MaxForeign
    /\ foreign' = foreign + 1
    /\ \E v \in DOMAIN viewStates[d] :
          /\ viewStates[d][v].Block.block_hash # EmptyString
          /\ net' = net \cup
               {[type |-> t, to |-> d, view |-> v, addr |-> a,
                 sig |-> [signer |-> a,
                          digest |-> hexDecode(viewStates[d][v].Block.block_hash)],
                 hash |-> viewStates[d][v].Block.block_hash]}
    /\ UNCHANGED <<peers, store, height, pending, submitted, ev, boot, peerPubKeys,
                   viewStates, consensusInProgress, nonPbft>>

InitPBFT ==
    /\ peers = [n \in PbftNodes |-> SortedSeq(PbftNodes \ {n})]
    /\ store = [n \in PbftNodes |-> [i \in {0} |-> createGenesisBlock(HosID)]]
    /\ height = [n \in PbftNodes |-> 0]
    /\ pending = [n \in PbftNodes |-> <<>>]
    /\ net = {}
    /\ submitted = {}
    /\ ev = <<"init", "">>
    /\ boot = [n \in PbftNodes |-> 1]
    /\ peerPubKeys = [n \in PbftNodes |-> [a \in PbftNodes \ {n} |-> PubKeyOf(a)]]
    /\ viewStates = [n \in PbftNodes |-> EmptyMap]
    /\ consensusInProgress = [n \in PbftNodes |-> FALSE]
    /\ foreign = 0
    /\ isMining = EmptyMap
    /\ miningStop = EmptyMap
    /\ GlobalDifficulty = EmptyMap
    /\ tasks = EmptyMap
    /\ recv = EmptyMap
    /\ isBoot = EmptyMap
    /\ crashed = {}
    /\ watch = EmptyMap
    /\ meta = EmptyMap
    /\ cw = EmptyMap
    /\ mined = {}
    /\ anchorMap = EmptyMap
    /\ anchorDb = EmptyMap
    /\ cpBootMap = EmptyMap
    /\ reply = <<>>
    /\ misses = EmptyMap
    /\ kv = EmptyMap

NextPBFT ==
    \/ \E n \in ClientNodes : \E r \in Records : Submit(n, r)
    \/ \E n \in Nodes : startConsensusWatcher(n)
    \/ \E n \in Nodes : \E m \in net : handleBftStart(n, m)
    \/ \E n \in Nodes : \E m \in net : handleReceivePrepare(n, m)
    \/ \E n \in Nodes : \E m \in net : handleReceiveCommit(n, m)
    \/ \E a \in ForeignSigners : \E d \in Nodes : \E t \in {"prepare", "commit"} :
          postVote(a, d, t)

SpecPBFT == InitPBFT /\ [][NextPBFT]_vars

\* C2: four fault-free nodes, the leader proposes a block with one record:
\* once every /bft/start, /bft/prepare and /bft/commit request has been
\* handled, every node, the leader included, has persisted the same block at
\* index 1 with at least three signatures by different signers.
C2_HappyPath ==
    (submitted = Records /\ foreign = 0 /\ net = {}
        /\ \A n \in Nodes : pendingIsEmpty(n)) =>
      \A n \in Nodes :
        /\ HasBlock(n, 1)
        /\ store[n][1].block_hash = store[boot[n]][1].block_hash
        /\ Cardinality({store[n][1].signatures[i].signer :
                          i \in 1..Len(store[n][1].signatures)}) >= 3

\* C24: a record the leader's consensus watcher took out of pending is, once
\* every request of the view was handled, in a finalized block or back in
\* pending.
C24_NoRecordLostPBFT ==
    net = {} =>
        \A r \in submitted :
            \/ \E n \in Nodes : \E i \in DOMAIN store[n] : r \in SeqToSet(store[n][i].entries)
            \/ \E n \in Nodes : r \in SeqToSet(pending[n])

\* C28: in the view a leader has proposed a block for, once the leader has
\* handled its own /bft/start, the leader's own signature is in the leader's
\* Prepare collector.
C28_LeaderInPrepare ==
    \A n \in Nodes : \A v \in DOMAIN viewStates[n] :
        (/\ viewStates[n][v].Phase # "Idle"
         /\ viewStates[n][v].Block.proposer = n
         /\ \A m \in net : ~(m.type = "start" /\ m.to = n))
            => n \in DOMAIN viewStates[n][v].Prepare

-----------------------------------------------------------------------------
(* PBFT votes that two registered peers sign over the raw hash bytes and   *)
(* send to one node, in any order against that node's /bft/start           *)

VoteNodes == {2}          \* the node whose collectors are watched
VoteSigners == {3, 4}     \* registered peers whose votes pass the handler

\* the operators of VoteSigners send their prepare and commit votes for the
\* leader's proposal to node d
castVotes(d) ==
    /\ foreign < MaxForeign
    /\ foreign' = foreign + 1
    /\ \E v \in DOMAIN viewStates[boot[d]] :
          LET h == viewStates[boot[d]][v].Block.block_hash
          IN /\ h # EmptyString
             /\ net' = net \cup
                  {[type |-> t, to |-> d, view |-> v, addr |-> a,
                    sig |-> [signer |-> a, digest |-> hexDecode(h)],
                    hash |-> h] : a \in VoteSigners, t \in {"prepare", "commit"}}
    /\ UNCHANGED <<peers, store, height, pending, submitted, ev, boot, peerPubKeys,
                   viewStates, consensusInProgress, nonPbft>>

NextVotes ==
    \/ \E n \in ClientNodes : \E r \in Records : Submit(n, r)
    \/ \E n \in Nodes : startConsensusWatcher(n)
    \/ \E n \in VoteNodes : \E m \in net : handleBftStart(n, m)
    \/ \E n \in VoteNodes : \E m \in net : handleReceivePrepare(n, m)
    \/ \E n \in VoteNodes : \E m \in net : handleReceiveCommit(n, m)
    \/ \E d \in VoteNodes : castVotes(d)

SpecVotes == InitPBFT /\ [][NextVotes]_vars

\* every request to the watched node that is in flight is served in the end
FairSpecVotes ==
    /\ SpecVotes
    /\ \A n \in VoteNodes :
          /\ WF_vars(\E m \in net : handleBftStart(n, m))
          /\ WF_vars(\E m \in net : handleReceivePrepare(n, m))
          /\ WF_vars(\E m \in net : handleReceiveCommit(n, m))

\* node n holds a view in phase Commit whose Commit collector has quorum votes
CommitQuorumHeld(n) ==
    \E v \in DOMAIN viewStates[n] :
        /\ viewStates[n][v].Phase = "Commit"
        /\ collectorCount(viewStates[n][v].Commit) >= quorumSize(n)

\* C27: a view in phase Commit whose Commit collector holds quorum votes is
\* finalized (its view state is deleted after the append was tried), whether
\* the commit votes came before or after the node's own step to Commit.
C27_CommitQuorumFinalizes ==
    \A n \in VoteNodes : CommitQuorumHeld(n) ~> ~CommitQuorumHeld(n)

\* the votes of VoteSigners for node d have been sent and every request to d
\* has been served
VotesServed(d) ==
    /\ foreign > 0
    /\ \A m \in net : m.to # d

\* C30: once node d has processed /bft/start of a view and every vote sent to
\* it has been served, the valid votes are in the view's collectors, also the
\* ones that were served before /bft/start.
C30_EarlyVoteCounted ==
    \A d \in VoteNodes : \A v \in DOMAIN viewStates[d] :
        (VotesServed(d) /\ viewStates[d][v].Phase \in {"Prepare", "Commit"})
            => /\ VoteSigners \subseteq DOMAIN viewStates[d][v].Prepare
               /\ VoteSigners \subseteq DOMAIN viewStates[d][v].Commit

-----------------------------------------------------------------------------
(* PBFT proposals that reach one node under several view numbers *)

StartViews == {1, 2}      \* view numbers a /bft/start request may carry

\* the leader's operator sends node d a /bft/start that carries view number v
\* and a block proposed on the leader's tip
postStart(d, v) ==
    /\ foreign < MaxForeign
    /\ foreign' = foreign + 1
    /\ net' = net \cup {[type |-> "start", to |-> d, view |-> v,
                         block |-> createProposedBlock(boot[d], <<>>)]}
    /\ UNCHANGED <<peers, store, height, pending, submitted, ev, boot, peerPubKeys,
                   viewStates, consensusInProgress, nonPbft>>

NextViews ==
    \/ \E n \in ClientNodes : \E r \in Records : Submit(n, r)
    \/ \E n \in Nodes : startConsensusWatcher(n)
    \/ \E n \in VoteNodes : \E m \in net : handleBftStart(n, m)
    \/ \E n \in VoteNodes : \E m \in net : handleReceivePrepare(n, m)
    \/ \E n \in VoteNodes : \E m \in net : handleReceiveCommit(n, m)
    \/ \E d \in VoteNodes : castVotes(d)
    \/ \E d \in VoteNodes : \E v \in StartViews : postStart(d, v)

SpecViews == InitPBFT /\ [][NextViews]_vars

\* the views of node n that are in a phase other than Idle
NonIdleViews(n) == {v \in DOMAIN viewStates[n] : viewStates[n][v].Phase # "Idle"}

\* C31: a node never holds more than one view in a phase other than Idle.
C31_OneNonIdleView ==
    \A n \in Nodes : Cardinality(NonIdleViews(n)) <= 1

-----------------------------------------------------------------------------
(* PBFT votes for another block than the one the receiver took for the view *)

\* the operators of VoteSigners vote for a block that was proposed to them on
\* the leader's tip for the same view with other entries, and send the votes
\* to node d
castConflictingVotes(d) ==
    /\ foreign < MaxForeign
    /\ foreign' = foreign + 1
    /\ \E v \in DOMAIN viewStates[boot[d]] :
          LET other == createProposedBlock(boot[d], <<>>)
              h == other.block_hash
          IN /\ viewStates[boot[d]][v].Block.block_hash \notin {EmptyString, h}
             /\ net' = net \cup
                  {[type |-> t, to |-> d, view |-> v, addr |-> a,
                    sig |-> [signer |-> a, digest |-> hexDecode(h)],
                    hash |-> h] : a \in VoteSigners, t \in {"prepare", "commit"}}
    /\ UNCHANGED <<peers, store, height, pending, submitted, ev, boot, peerPubKeys,
                   viewStates, consensusInProgress, nonPbft>>

NextConflict ==
    \/ \E n \in ClientNodes : \E r \in Records : Submit(n, r)
    \/ \E n \in Nodes : startConsensusWatcher(n)
    \/ \E n \in VoteNodes : \E m \in net : handleBftStart(n, m)
    \/ \E n \in VoteNodes : \E m \in net : handleReceivePrepare(n, m)
    \/ \E n \in VoteNodes : \E m \in net : handleReceiveCommit(n, m)
    \/ \E d \in VoteNodes : castVotes(d)
    \/ \E d \in VoteNodes : castConflictingVotes(d)

SpecConflict == InitPBFT /\ [][NextConflict]_vars

\* request m is a vote for node n whose hash is not the block hash of n's view
HashMismatch(n, m) ==
    /\ m.to = n
    /\ m.type \in {"prepare", "commit"}
    /\ getOrCreateView(n, m.view).Block.block_hash # m.hash

-----------------------------------------------------------------------------
(* PBFT ledger: the sync path of a node that (re)joins through its boot node *)

\* validateUpperBlock of the PBFT revision, on the fields of the PBFT block:
\* index, link, chain id, merkle root; its fifth step compares the carried
\* hash with itself
validateUpperBlockGov(newBlk, prevBlk) ==
    /\ prevBlk.index + 1 = newBlk.index
    /\ prevBlk.block_hash = newBlk.prev_hash
    /\ prevBlk.hos_id = newBlk.hos_id
    /\ merkleRootHex(LeafHashes(newBlk.entries)) = newBlk.merkle_root
    /\ newBlk.block_hash = newBlk.block_hash

\* the loop of syncChain over page.Items: db is the store and height_latest
\* of the syncing node; the first block that fails ends the loop
RECURSIVE syncLoop(_, _, _)
syncLoop(db, items, i) ==
    IF i > Len(items) THEN db
    ELSE LET nb == items[i]
             ok == \/ nb.index = 0
                   \/ /\ (nb.index - 1) \in DOMAIN db.blocks
                      /\ validateUpperBlockGov(nb, db.blocks[nb.index - 1])
         IN IF ~ok THEN db
            ELSE syncLoop([blocks |-> Put(db.blocks, nb.index, nb), h |-> nb.index],
                          items, i + 1)

\* GET /blocks of node p, as p's program answers it
blocksOf(p) == [k \in 1..(height[p] + 1) |-> store[p][k - 1]]

\* the answers a boot node p may give to GET /blocks: its ledger, or its
\* ledger followed by a block its operator built on the tip, well formed but
\* for its signatures: none, or the operator's own
ServedPages(p) ==
    LET b == createProposedBlock(p, <<>>)
    IN {blocksOf(p)} \cup
       {blocksOf(p) \o <<[b EXCEPT !.signatures = s]>> :
           s \in {<<>>, <<[signer |-> p, digest |-> sha256OfString(b.block_hash)]>>}}

\* syncChain(boot) of node n
syncChainGov(n, items) ==
    /\ n # boot[n]
    /\ items \in ServedPages(boot[n])
    /\ (items # blocksOf(boot[n])) => foreign < MaxForeign
    /\ foreign' = IF items # blocksOf(boot[n]) THEN foreign + 1 ELSE foreign
    /\ LET remoteTotal == Len(items)
           localH == height[n]
           db == syncLoop([blocks |-> store[n], h |-> localH], items, 1)
       IN IF localH >= 0 /\ remoteTotal <= localH + 1
          THEN UNCHANGED <<store, height>>
          ELSE /\ store' = [store EXCEPT ![n] = db.blocks]
               /\ height' = [height EXCEPT ![n] = db.h]
    /\ UNCHANGED <<peers, pending, net, submitted, ev, boot, peerPubKeys,
                   viewStates, consensusInProgress, nonPbft>>

Rejoiners == {2}        \* the nodes that restart and sync in this scenario

NextPBFTSync ==
    \/ \E n \in ClientNodes : \E r \in Records : Submit(n, r)
    \/ \E n \in Nodes : startConsensusWatcher(n)
    \/ \E n \in Nodes : \E m \in net : handleBftStart(n, m)
    \/ \E n \in Nodes : \E m \in net : handleReceivePrepare(n, m)
    \/ \E n \in Nodes : \E m \in net : handleReceiveCommit(n, m)
    \/ \E a \in ForeignSigners : \E d \in Nodes : \E t \in {"prepare", "commit"} :
          postVote(a, d, t)
    \/ \E n \in Rejoiners : \E items \in ServedPages(boot[n]) : syncChainGov(n, items)

SpecPBFTSync == InitPBFT /\ [][NextPBFTSync]_vars

\* the signers whose signature over sha256(block_hash) a block carries
ValidSigners(b) ==
    {a \in PbftNodes : \E k \in 1..Len(b.signatures) :
        verifyECDSA(PubKeyOf(a), sha256OfString(b.block_hash), b.signatures[k])}

\* C14: every block persisted above index 0 carries valid signatures over
\* sha256(block_hash) by at least quorum different known signers, whichever
\* path appended it.
C14_QuorumSigned ==
    \A n \in Nodes : \A i \in DOMAIN store[n] :
        i > 0 => Cardinality(ValidSigners(store[n][i])) >= quorumSize(n)

\* the answers of a boot node p whose operator builds blocks on its tip: its
\* ledger, or its ledger followed by one block proposed with the entries e
TipPages(p) ==
    {blocksOf(p)} \cup
    {blocksOf(p) \o <<createProposedBlock(p, e)>> :
        e \in {<<>>} \cup {<<r>> : r \in Records}}

\* syncChain(boot) of node n against such a boot node
syncChainTip(n, items) ==
    /\ n # boot[n]
    /\ items \in TipPages(boot[n])
    /\ LET remoteTotal == Len(items)
           localH == height[n]
           db == syncLoop([blocks |-> store[n], h |-> localH], items, 1)
       IN IF localH >= 0 /\ remoteTotal <= localH + 1
          THEN UNCHANGED <<store, height>>
          ELSE /\ store' = [store EXCEPT ![n] = db.blocks]
               /\ height' = [height EXCEPT ![n] = db.h]
    /\ UNCHANGED <<peers, pending, net, submitted, ev, boot, peerPubKeys,
                   viewStates, consensusInProgress, foreign, nonPbft>>

SyncNodes == {2, 3}     \* the nodes that start and sync in this scenario

NextJoin ==
    \/ \E n \in ClientNodes : \E r \in Records : Submit(n, r)
    \/ \E n \in Nodes : startConsensusWatcher(n)
    \/ \E n \in VoteNodes : \E m \in net : handleBftStart(n, m)
    \/ \E n \in VoteNodes : \E m \in net : handleReceivePrepare(n, m)
    \/ \E n \in VoteNodes : \E m \in net : handleReceiveCommit(n, m)
    \/ \E d \in VoteNodes : castVotes(d)
    \/ \E n \in SyncNodes : \E items \in TipPages(boot[n]) : syncChainTip(n, items)

SpecJoin == InitPBFT /\ [][NextJoin]_vars

\* C29: two nodes that both hold a block at one height hold the same
\* block_hash there.
C29_SameHashAtHeight ==
    \A n1 \in Nodes : \A n2 \in Nodes :
        \A i \in (DOMAIN store[n1]) \cap (DOMAIN store[n2]) :
            store[n1][i].block_hash = store[n2][i].block_hash

\* PBFT network whose three peers synced a block on their tip before the
\* leader proposes: every peer drops the proposal on the prev-link test.  No
\* vote is admitted in this scenario, so no /bft/commit request exists.
DropNodes == {2, 3, 4}
DropRecords == {1, 2}    \* one record for the proposal, one that comes after it

NextDrop ==
    \/ \E n \in ClientNodes : \E r \in DropRecords : Submit(n, r)
    \/ \E n \in Nodes : startConsensusWatcher(n)
    \/ \E n \in Nodes : \E m \in net : handleBftStart(n, m)
    \/ \E n \in VoteNodes : \E m \in net : handleReceivePrepare(n, m)
    \/ \E n \in DropNodes : \E items \in TipPages(boot[n]) : syncChainTip(n, items)

SpecDrop == InitPBFT /\ [][NextDrop]_vars

\* the watcher ticks every second and every request in flight is served
FairSpecDrop ==
    /\ SpecDrop
    /\ \A n \in PbftNodes :
          /\ WF_vars(startConsensusWatcher(n))
          /\ WF_vars(\E m \in net : handleBftStart(n, m))
          /\ WF_vars(\E m \in net : handleReceivePrepare(n, m))

\* leader b has a proposal out that every peer has handled and none has taken
ProposalDropped(b) ==
    \E v \in DOMAIN viewStates[b] :
        /\ viewStates[b][v].Phase = "PrePrepare"
        /\ \A m \in net : ~(m.type = "start" /\ m.view = v)
        /\ \A n \in Nodes \ {b} :
              v \in DOMAIN viewStates[n] => viewStates[n][v].Phase = "Idle"

\* C32: after every peer dropped the leader's proposal, records that come
\* into the leader's pool are taken by a later watcher tick for a new proposal.
C32_LeaderRetries ==
    \A b \in PbftNodes :
        (ProposalDropped(b) /\ ~pendingIsEmpty(b)) ~> pendingIsEmpty(b)

-----------------------------------------------------------------------------
(* The quorum thresholds on their own: one node, every peer count *)

MaxPeers == 6             \* the node has 0..MaxPeers peers

\* checkQuorum of the consensusCollector revision: 2*(n-1)/3 + 1 in integer
\* arithmetic, the product taken before the division
checkQuorum(n, signatures) ==
    LET cnt == Len(peers[n]) + 1
    IN Len(signatures) >= (2 * (cnt - 1)) \div 3 + 1

\* c signatures over sha256(block_hash), by the node itself and its first peers
signedBy(c, hash) ==
    [i \in 1..c |-> [signer |-> i, digest |-> sha256OfString(hash)]]

\* the Prepare and Commit thresholds of the viewState revision, c votes held
callQuorumSize(n, c) ==
    /\ reply' = <<"quorumSize", c, c >= quorumSize(n)>>
    /\ UNCHANGED <<peers, store, height, pending, net, submitted, ev, boot, peerPubKeys,
                   powVars, pbftVars, bootVars, forkVars, anchorMap, anchorDb, cpBootMap,
                   misses, kv>>

\* the Prepare and Commit thresholds of the consensusCollector revision
callCheckQuorum(n, c) ==
    /\ reply' = <<"checkQuorum", c, checkQuorum(n, signedBy(c, store[n][0].block_hash))>>
    /\ UNCHANGED <<peers, store, height, pending, net, submitted, ev, boot, peerPubKeys,
                   powVars, pbftVars, bootVars, forkVars, anchorMap, anchorDb, cpBootMap,
                   misses, kv>>

\* the evidence check at append, the block carrying c valid signatures
callVerifyConsensusEvidence(n, c) ==
    /\ reply' = <<"verifyConsensusEvidence", c,
                  verifyConsensusEvidence(n, [store[n][0] EXCEPT
                      !.signatures = signedBy(c, store[n][0].block_hash)])>>
    /\ UNCHANGED <<peers, store, height, pending, net, submitted, ev, boot, peerPubKeys,
                   powVars, pbftVars, bootVars, forkVars, anchorMap, anchorDb, cpBootMap,
                   misses, kv>>

\* node 1 with k peers, k = 0..MaxPeers, every peer's key on record
InitQuorum ==
    /\ \E k \in 0..MaxPeers :
          /\ peers = [n \in {1} |-> [i \in 1..k |-> i + 1]]
          /\ peerPubKeys = [n \in {1} |-> [a \in 2..(k + 1) |-> PubKeyOf(a)]]
    /\ store = [n \in {1} |-> [i \in {0} |-> createGenesisBlock(HosID)]]
    /\ height = [n \in {1} |-> 0]
    /\ pending = [n \in {1} |-> <<>>]
    /\ net = {}
    /\ submitted = {}
    /\ ev = <<"init", "">>
    /\ boot = [n \in {1} |-> 1]
    /\ viewStates = [n \in {1} |-> EmptyMap]
    /\ consensusInProgress = [n \in {1} |-> FALSE]
    /\ foreign = 0
    /\ isMining = EmptyMap
    /\ miningStop = EmptyMap
    /\ GlobalDifficulty = EmptyMap
    /\ tasks = EmptyMap
    /\ recv = EmptyMap
    /\ isBoot = EmptyMap
    /\ crashed = {}
    /\ watch = EmptyMap
    /\ meta = EmptyMap
    /\ cw = EmptyMap
    /\ mined = {}
    /\ anchorMap = EmptyMap
    /\ anchorDb = EmptyMap
    /\ cpBootMap = EmptyMap
    /\ reply = <<>>
    /\ misses = EmptyMap
    /\ kv = EmptyMap

NextQuorum ==
    \/ \E n \in Nodes : \E c \in 0..(Len(peers[n]) + 1) : callQuorumSize(n, c)
    \/ \E n \in Nodes : \E c \in 0..(Len(peers[n]) + 1) : callCheckQuorum(n, c)
    \/ \E n \in Nodes : \E c \in 0..(Len(peers[n]) + 1) : callVerifyConsensusEvidence(n, c)

SpecQuorum == InitQuorum /\ [][NextQuorum]_vars

\* quorum = 2f + 1 with f = floor((n - 1) / 3)
TwoFPlusOne(cnt) ==
    LET f == (cnt - 1) \div 3
    IN 2 * f + 1

\* C33: each of the three places answers "quorum reached" for c signatures
\* exactly when c >= 2f + 1, f = floor((n - 1) / 3), n = peers + 1.
C33_QuorumEverywhere ==
    reply # <<>> =>
        \A n \in Nodes : reply[3] <=> (reply[2] >= TwoFPlusOne(Len(peers[n]) + 1))

-----------------------------------------------------------------------------
(* Membership: liveness watcher, boot election, boot notification *)

BootNodes == {1, 2, 3, 4, 5}
BootHeights == {1, 2}

\* the empty address
NoPeer == 0

\* GET /status answers while the process is up; a request to the empty
\* address has no host and fails
probeStatus(addr) == addr # NoPeer /\ addr \notin crashed

removePeer(list, addr) == SelectSeq(list, LAMBDA p : p # addr)

\* the loop of electAndSwitch with the height comparison turned around
RECURSIVE pickWinnerLowestHeight(_, _, _)
pickWinnerLowestHeight(live, i, winner) ==
    IF i > Len(live) THEN winner
    ELSE pickWinnerLowestHeight(live, i + 1,
            IF \/ height[live[i]] < height[winner]
               \/ (height[live[i]] = height[winner] /\ live[i] < winner)
            THEN live[i] ELSE winner)

\* the loop of electAndSwitch over live[1:]: larger height wins, the smaller
\* address wins a tie
RECURSIVE pickWinner(_, _, _)
pickWinner(live, i, winner) ==
    IF i > Len(live) THEN winner
    ELSE pickWinner(live, i + 1,
            IF \/ height[live[i]] > height[winner]
               \/ (height[live[i]] = height[winner] /\ live[i] < winner)
            THEN live[i] ELSE winner)

broadcastNewBoot(n, list) == {[type |-> "bootNotify", to |-> d, addr |-> n] : d \in SeqToSet(list)}

\* electAndSwitch taking the first live candidate without the comparison loop
electAndSwitchFirstLive(n, list) ==
    LET cand == list \o <<n>>
        live == SelectSeq(cand, probeStatus)
        winner == live[1]
    IN IF Len(live) = 0 \/ winner = n
       THEN /\ isBoot' = [isBoot EXCEPT ![n] = TRUE]
            /\ boot' = [boot EXCEPT ![n] = n]
            /\ net' = net \cup (IF Len(live) = 0 THEN {} ELSE broadcastNewBoot(n, list))
       ELSE /\ isBoot' = [isBoot EXCEPT ![n] = FALSE]
            /\ boot' = [boot EXCEPT ![n] = winner]
            /\ UNCHANGED net

\* electAndSwitch run by node n whose peer list is list
electAndSwitch(n, list) ==
    LET cand == list \o <<n>>
        live == SelectSeq(cand, probeStatus)
        winner == pickWinner(live, 2, live[1])
    IN IF Len(live) = 0 \/ winner = n
       THEN /\ isBoot' = [isBoot EXCEPT ![n] = TRUE]
            /\ boot' = [boot EXCEPT ![n] = n]
            /\ net' = net \cup (IF Len(live) = 0 THEN {} ELSE broadcastNewBoot(n, list))
       ELSE /\ isBoot' = [isBoot EXCEPT ![n] = FALSE]
            /\ boot' = [boot EXCEPT ![n] = winner]
            /\ UNCHANGED net

\* the boot node's process disappears
crashBoot(b) ==
    /\ crashed = {}
    /\ isBoot[b]
    /\ crashed' = {b}
    /\ UNCHANGED <<peers, height, net, boot, isBoot, watch, nonBoot>>

\* startNetworkWatcher: a tick begins by reading the boot address
startNetworkWatcher(n) ==
    /\ n \notin crashed
    /\ watch' = [watch EXCEPT ![n] = boot[n]]
    /\ UNCHANGED <<peers, height, net, boot, isBoot, crashed, nonBoot>>

\* startNetworkWatcher: the body of the loop for an address that does not
\* answer; for one that answers the body only marks it alive
watcherProbe(n, addr) ==
    /\ n \notin crashed
    /\ addr \in SeqToSet(peers[n])
    /\ ~probeStatus(addr)
    /\ peers' = [peers EXCEPT ![n] = removePeer(@, addr)]
    /\ IF addr = watch[n]
       THEN electAndSwitch(n, removePeer(peers[n], addr))
       ELSE UNCHANGED <<boot, isBoot, net>>
    /\ UNCHANGED <<height, crashed, watch, nonBoot>>

\* POST /bootNotify
bootNotify(n, m) ==
    /\ n \notin crashed
    /\ m \in net /\ m.type = "bootNotify" /\ m.to = n
    /\ net' = net \ {m}
    /\ IF ~probeStatus(m.addr)
       THEN UNCHANGED <<isBoot, boot>>
       ELSE /\ isBoot' = [isBoot EXCEPT ![n] = (m.addr = n)]
            /\ boot' = [boot EXCEPT ![n] = m.addr]
    /\ UNCHANGED <<peers, height, crashed, watch, nonBoot>>

InitBoot ==
    /\ peers = [n \in BootNodes |-> SortedSeq(BootNodes \ {n})]
    /\ height \in [BootNodes -> BootHeights]
    /\ boot = [n \in BootNodes |-> 1]
    /\ isBoot = [n \in BootNodes |-> n = 1]
    /\ crashed = {}
    /\ watch = [n \in BootNodes |-> 1]
    /\ net = {}
    /\ store = EmptyMap
    /\ pending = EmptyMap
    /\ submitted = {}
    /\ ev = <<"init", "">>
    /\ peerPubKeys = EmptyMap
    /\ viewStates = EmptyMap
    /\ consensusInProgress = EmptyMap
    /\ foreign = 0
    /\ isMining = EmptyMap
    /\ miningStop = EmptyMap
    /\ GlobalDifficulty = EmptyMap
    /\ tasks = EmptyMap
    /\ recv = EmptyMap
    /\ meta = EmptyMap
    /\ cw = EmptyMap
    /\ mined = {}
    /\ anchorMap = EmptyMap
    /\ anchorDb = EmptyMap
    /\ cpBootMap = EmptyMap
    /\ reply = <<>>
    /\ misses = EmptyMap
    /\ kv = EmptyMap

NextBoot ==
    \/ \E b \in Nodes : crashBoot(b)
    \/ \E n \in Nodes : startNetworkWatcher(n)
    \/ \E n \in Nodes : \E addr \in Nodes : watcherProbe(n, addr)
    \/ \E n \in Nodes : \E m \in net : bootNotify(n, m)

SpecBoot == InitBoot /\ [][NextBoot]_vars

\* the watcher tickers keep firing and delivered requests are handled
FairSpecBoot ==
    /\ SpecBoot
    /\ WF_vars(\E n \in Nodes : \E addr \in Nodes : watcherProbe(n, addr))
    /\ WF_vars(\E n \in Nodes : \E m \in net : bootNotify(n, m))

Survivors == Nodes \ crashed

\* the survivor the election rule names: highest height, smallest address on ties
ExpectedBoot ==
    CHOOSE w \in Survivors :
        \A x \in Survivors :
            height[w] > height[x] \/ (height[w] = height[x] /\ w <= x)

Elected ==
    \A n \in Survivors : boot[n] = ExpectedBoot /\ (isBoot[n] <=> n = ExpectedBoot)

\* C3: five nodes, the boot disappears: the watchers and the election lead to
\* a state, kept from then on, where exactly one survivor has is_boot, the
\* one with the highest height and the smallest address among equals, and
\* every survivor records that node as boot.
C3_BootReelected == <>[](crashed # {} => Elected)

\* the election is over and it had a tie on the highest height to break
C3_Witness ==
    /\ crashed # {}
    /\ net = {}
    /\ \A n \in Survivors : SeqToSet(peers[n]) \cap crashed = {}
    /\ Elected
    /\ \E x \in Survivors \ {ExpectedBoot} : height[x] = height[ExpectedBoot]


\* the same network with every peer's public key on record at every node
InitKeys ==
    /\ peers = [n \in BootNodes |-> SortedSeq(BootNodes \ {n})]
    /\ height \in [BootNodes -> BootHeights]
    /\ boot = [n \in BootNodes |-> 1]
    /\ isBoot = [n \in BootNodes |-> n = 1]
    /\ crashed = {}
    /\ watch = [n \in BootNodes |-> 1]
    /\ net = {}
    /\ store = EmptyMap
    /\ pending = EmptyMap
    /\ submitted = {}
    /\ ev = <<"init", "">>
    /\ peerPubKeys = [n \in BootNodes |-> [a \in BootNodes \ {n} |-> PubKeyOf(a)]]
    /\ viewStates = EmptyMap
    /\ consensusInProgress = EmptyMap
    /\ foreign = 0
    /\ isMining = EmptyMap
    /\ miningStop = EmptyMap
    /\ GlobalDifficulty = EmptyMap
    /\ tasks = EmptyMap
    /\ recv = EmptyMap
    /\ meta = EmptyMap
    /\ cw = EmptyMap
    /\ mined = {}
    /\ anchorMap = EmptyMap
    /\ anchorDb = EmptyMap
    /\ cpBootMap = EmptyMap
    /\ reply = <<>>
    /\ misses = EmptyMap
    /\ kv = EmptyMap

SpecKeys == InitKeys /\ [][NextBoot]_vars

\* C35: when the watcher of node n finds that addr does not answer, addr is
\* afterwards neither in n's peer list nor in n's key registry.
C35_DeadPeerForgotten ==
    [][\A n \in Nodes : \A addr \in Nodes :
          watcherProbe(n, addr)
              => /\ addr \notin SeqToSet(peers'[n])
                 /\ addr \notin DOMAIN peerPubKeys'[n]]_vars

-----------------------------------------------------------------------------
(* electAndSwitch on its own: the revision that names the node by self and  *)
(* the one that names it by selfAddr                                        *)

ElectNodes == {1, 2, 3}

\* the package variable selfAddr of the first ledger revision: declared,
\* read by electAndSwitch and bootNotify, assigned nowhere
selfAddr == NoPeer

\* electAndSwitch of the revision with selfAddr
electAndSwitchCp(n, list) ==
    LET cand == list \o <<selfAddr>>
        live == SelectSeq(cand, probeStatus)
        winner == pickWinner(live, 2, live[1])
    IN IF Len(live) = 0
       THEN /\ isBoot' = [isBoot EXCEPT ![n] = TRUE]
            /\ boot' = [boot EXCEPT ![n] = selfAddr]
            /\ UNCHANGED net
       ELSE IF winner = selfAddr
       THEN /\ isBoot' = [isBoot EXCEPT ![n] = TRUE]
            /\ boot' = [boot EXCEPT ![n] = selfAddr]
            /\ net' = net \cup broadcastNewBoot(selfAddr, list)
       ELSE /\ isBoot' = [isBoot EXCEPT ![n] = FALSE]
            /\ boot' = [boot EXCEPT ![n] = winner]
            /\ UNCHANGED net

\* node n runs electAndSwitch over its peer list
callElectAndSwitch(n) ==
    /\ n \notin crashed
    /\ electAndSwitch(n, peers[n])
    /\ ev' = <<"electAndSwitch", n>>
    /\ UNCHANGED <<peers, height, crashed, watch, store, pending, submitted, peerPubKeys,
                   powVars, pbftVars, laterVars>>

callElectAndSwitchCp(n) ==
    /\ n \notin crashed
    /\ electAndSwitchCp(n, peers[n])
    /\ ev' = <<"electAndSwitchCp", n>>
    /\ UNCHANGED <<peers, height, crashed, watch, store, pending, submitted, peerPubKeys,
                   powVars, pbftVars, laterVars>>

\* any set of nodes answers, every node knows every other one
InitElect ==
    /\ peers = [n \in ElectNodes |-> SortedSeq(ElectNodes \ {n})]
    /\ height \in [ElectNodes -> BootHeights]
    /\ boot = [n \in ElectNodes |-> 1]
    /\ isBoot = [n \in ElectNodes |-> n = 1]
    /\ crashed \in SUBSET ElectNodes
    /\ watch = [n \in ElectNodes |-> 1]
    /\ net = {}
    /\ store = EmptyMap
    /\ pending = EmptyMap
    /\ submitted = {}
    /\ ev = <<"init", "">>
    /\ peerPubKeys = EmptyMap
    /\ viewStates = EmptyMap
    /\ consensusInProgress = EmptyMap
    /\ foreign = 0
    /\ isMining = EmptyMap
    /\ miningStop = EmptyMap
    /\ GlobalDifficulty = EmptyMap
    /\ tasks = EmptyMap
    /\ recv = EmptyMap
    /\ meta = EmptyMap
    /\ cw = EmptyMap
    /\ mined = {}
    /\ anchorMap = EmptyMap
    /\ anchorDb = EmptyMap
    /\ cpBootMap = EmptyMap
    /\ reply = <<>>
    /\ misses = EmptyMap
    /\ kv = EmptyMap

NextElect ==
    \/ \E n \in Nodes : callElectAndSwitch(n)
    \/ \E n \in Nodes : callElectAndSwitchCp(n)

SpecElect == InitElect /\ [][NextElect]_vars

\* the candidates of node n, named self, whose probe succeeds
LiveCandidates(n, self) == {c \in SeqToSet(peers[n]) \cup {self} : probeStatus(c)}

\* maximum height, smallest address among equals
Best(live) ==
    CHOOSE w \in live :
        \A x \in live : height[w] > height[x] \/ (height[w] = height[x] /\ w <= x)

ElectionRule(n, self) ==
    LET live == LiveCandidates(n, self)
    IN IF live = {}
       THEN isBoot'[n] /\ boot'[n] = self
       ELSE /\ boot'[n] = Best(live)
            /\ isBoot'[n] <=> (Best(live) = self)

-----------------------------------------------------------------------------
(* Upper chain: block gossip, chain watcher, reset and resync *)

ForkNodes == {1, 2}
MaxForkHeight == 2
OttID == <<"OTT-A">>
UnknownOtt == <<"UNKNOWN_OTT">>
NoMeta == <<"absent">>
BlocksPageLimit == 50

\* the anchors every mining round of this scenario carries
Anchors == <<[cp_id |-> 1, lower_root |-> sha256Hex(<<"root", 1>>)]>>

selfID(n) == IF meta[n] = NoMeta THEN UnknownOtt ELSE meta[n]

computeUpperMerkleRoot(records) ==
    IF Len(records) = 0 THEN EmptyString
    ELSE merkleRootHex([i \in 1..Len(records) |-> records[i].lower_root])

mineUpperGenesisBlock(ottID) ==
    LET header == [index |-> 0, prev_hash |-> ZeroHash,
                   merkle_root |-> sha256Hex(<<"empty">>),
                   difficulty |-> GenesisDifficulty,
                   nonce |-> <<0, GenesisDifficulty>>]
    IN [index |-> 0, ott_id |-> ottID, prev_hash |-> ZeroHash, records |-> <<>>,
        merkle_root |-> header.merkle_root, nonce |-> header.nonce,
        difficulty |-> GenesisDifficulty, block_hash |-> computeHashForPoW(header)]

\* the hash of the block at height_latest, "" when there is no such block
lastHashOf(n) ==
    IF HasBlock(n, height[n]) THEN store[n][height[n]].block_hash ELSE EmptyString

\* GET /status
status(p) == [height |-> height[p], last_hash |-> lastHashOf(p)]

validateUpperBlock(newBlk, prevBlk) ==
    /\ prevBlk.index + 1 = newBlk.index
    /\ prevBlk.block_hash = newBlk.prev_hash
    /\ prevBlk.ott_id = newBlk.ott_id
    /\ computeUpperMerkleRoot(newBlk.records) = newBlk.merkle_root
    /\ validHash(newBlk.block_hash, newBlk.difficulty)

\* onBlockReceived of the upper chain
onUpperBlockReceivedOk(n, ub) ==
    /\ HasBlock(n, ub.index - 1)
    /\ ub.prev_hash = store[n][ub.index - 1].block_hash
    /\ validHash(ub.block_hash, ub.difficulty)

\* the body of POST /receive: stop mining, check the PoW prefix, build the
\* block with this node's chain id and hand it to onBlockReceived
receiveBody(n, header, hash, entries) ==
    /\ miningStop' = [miningStop EXCEPT ![n] = TRUE]
    /\ LET ub == [index |-> header.index, ott_id |-> selfID(n),
                  prev_hash |-> header.prev_hash, records |-> entries,
                  merkle_root |-> header.merkle_root, nonce |-> header.nonce,
                  difficulty |-> header.difficulty, block_hash |-> hash]
       IN IF validHash(hash, header.difficulty) /\ onUpperBlockReceivedOk(n, ub)
          THEN saveBlockToDB(n, ub)
          ELSE UNCHANGED <<store, height>>

\* /mine/start on node n: mineBlock finds a nonce for a block on n's tip;
\* broadcastBlock starts the posts to the peers and posts the block to n's
\* own /receive before it returns
mineUpperBlock(n) ==
    /\ height[n] >= 0 /\ HasBlock(n, height[n])
    /\ height[n] < MaxForkHeight
    /\ LET prev == store[n][height[n]]
           header == [index |-> prev.index + 1, prev_hash |-> prev.block_hash,
                      merkle_root |-> computeUpperMerkleRoot(Anchors),
                      difficulty |-> GlobalDifficulty[n],
                      nonce |-> <<n, GlobalDifficulty[n]>>]
           hash == computeHashForPoW(header)
       IN /\ <<n, header.index>> \notin mined
          /\ mined' = mined \cup {<<n, header.index>>}
          /\ net' = net \cup {[type |-> "upperBlock", to |-> d, header |-> header,
                               hash |-> hash, entries |-> Anchors] : d \in SeqToSet(peers[n])}
          /\ receiveBody(n, header, hash, Anchors)
    /\ UNCHANGED <<peers, pending, submitted, ev, boot, peerPubKeys,
                   isMining, GlobalDifficulty, tasks, recv, pbftVars, bootVars,
                   meta, cw, upperVars, misses, kv>>

\* POST /receive
receive(n, m) ==
    /\ m \in net /\ m.type = "upperBlock" /\ m.to = n
    /\ net' = net \ {m}
    /\ receiveBody(n, m.header, m.hash, m.entries)
    /\ UNCHANGED <<peers, pending, submitted, ev, boot, peerPubKeys, isMining,
                   GlobalDifficulty, tasks, recv, pbftVars, bootVars, laterVars>>

\* the loop of startChainWatcher over the peer list: the highest peer, and at
\* equal height the last one whose last_hash differs from the best so far
RECURSIVE scanPeers(_, _, _)
scanPeers(list, i, best) ==
    IF i > Len(list) THEN best
    ELSE LET st == status(list[i])
             found == [peer |-> list[i], height |-> st.height, hash |-> st.last_hash]
         IN scanPeers(list, i + 1,
                IF ~probeStatus(list[i]) THEN best
                ELSE IF st.height > best.height THEN found
                ELSE IF st.height = best.height /\ st.last_hash # best.hash THEN found
                ELSE best)

IdleWatcher == [pc |-> "idle", bestPeer |-> NoPeer, bestHeight |-> -1,
                bestHash |-> EmptyString, localH |-> -1, page |-> <<>>]

\* startChainWatcher: one tick up to the decision to reset; a tick that finds
\* nothing to do changes nothing
startChainWatcher(n) ==
    /\ cw[n].pc = "idle"
    /\ ~(isMining[n] \/ ~pendingIsEmpty(n))
    /\ LET best == scanPeers(peers[n], 1,
                       [peer |-> NoPeer, height |-> -1, hash |-> EmptyString])
           localH == height[n]
           localLastHash == IF localH >= 0 THEN lastHashOf(n) ELSE EmptyString
           needReset == \/ best.height > localH
                        \/ (best.height = localH /\ best.hash # localLastHash)
       IN /\ best.peer # NoPeer
          /\ needReset
          /\ cw' = [cw EXCEPT ![n] = [pc |-> "reset", bestPeer |-> best.peer,
                                      bestHeight |-> best.height, bestHash |-> best.hash,
                                      localH |-> localH, page |-> <<>>]]
    /\ UNCHANGED <<peers, store, height, pending, net, submitted, ev, boot,
                   peerPubKeys, powVars, pbftVars, bootVars, meta, mined, upperVars, misses, kv>>

\* resetLocalDB: every key of the store is deleted, then height_latest = -1
resetLocalDB(n) ==
    /\ cw[n].pc = "reset"
    /\ store' = [store EXCEPT ![n] = EmptyMap]
    /\ meta' = [meta EXCEPT ![n] = NoMeta]
    /\ height' = [height EXCEPT ![n] = -1]
    /\ cw' = [cw EXCEPT ![n].pc = "fetch"]
    /\ UNCHANGED <<peers, pending, net, submitted, ev, boot, peerPubKeys, powVars,
                   pbftVars, bootVars, mined, upperVars, misses, kv>>

\* listBlocksPaginated on node p: <<ok, items, total>>
listBlocksPaginated(p, offset, limit) ==
    LET h == height[p]
        total == h + 1
        end == IF offset + limit - 1 > h THEN h ELSE offset + limit - 1
    IN IF offset >= total THEN <<TRUE, <<>>, total>>
       ELSE IF \E i \in offset..end : ~HasBlock(p, i) THEN <<FALSE, <<>>, total>>
       ELSE <<TRUE, [k \in 1..(end - offset + 1) |-> store[p][offset + k - 1]], total>>

\* syncChain up to the loop: GET /blocks of the peer, difficulty update, and
\* the up-to-date test
syncChainFetch(n) ==
    /\ cw[n].pc = "fetch"
    /\ LET page == listBlocksPaginated(cw[n].bestPeer, 0, BlocksPageLimit)
           remoteTotal == page[3]
           remoteDifficulty == GlobalDifficulty[cw[n].bestPeer]
           localH == height[n]
       IN IF ~probeStatus(cw[n].bestPeer) \/ ~page[1]
          THEN /\ cw' = [cw EXCEPT ![n] = IdleWatcher]
               /\ ev' = <<"syncChain", "failed">>
               /\ UNCHANGED GlobalDifficulty
          ELSE /\ GlobalDifficulty' =
                      IF remoteDifficulty > 0 /\ remoteDifficulty # GlobalDifficulty[n]
                      THEN [GlobalDifficulty EXCEPT ![n] = remoteDifficulty]
                      ELSE GlobalDifficulty
               /\ IF (localH >= 0 /\ remoteTotal <= localH + 1) \/ Len(page[2]) = 0
                  THEN /\ cw' = [cw EXCEPT ![n] = IdleWatcher]
                       /\ ev' = <<"syncChain", "nothing">>
                  ELSE /\ cw' = [cw EXCEPT ![n].pc = "append", ![n].page = page[2]]
                       /\ UNCHANGED ev
    /\ UNCHANGED <<peers, store, height, pending, net, submitted, boot, peerPubKeys,
                   isMining, miningStop, tasks, recv, pbftVars, bootVars, meta,
                   mined, upperVars, misses, kv>>

\* syncChain: one turn of the loop over the fetched blocks
syncChainAppend(n) ==
    /\ cw[n].pc = "append"
    /\ LET nb == Head(cw[n].page)
           linked == nb.index = 0 \/ (/\ HasBlock(n, nb.index - 1)
                                      /\ validateUpperBlock(nb, store[n][nb.index - 1]))
       IN IF ~linked
          THEN /\ cw' = [cw EXCEPT ![n] = IdleWatcher]
               /\ ev' = <<"syncChain", "invalid">>
               /\ UNCHANGED <<store, height>>
          ELSE /\ saveBlockToDB(n, nb)
               /\ IF Len(cw[n].page) = 1
                  THEN /\ cw' = [cw EXCEPT ![n] = IdleWatcher]
                       /\ ev' = <<"syncChain", "synced">>
                  ELSE /\ cw' = [cw EXCEPT ![n].page = Tail(@)]
                       /\ UNCHANGED ev
    /\ UNCHANGED <<peers, pending, net, submitted, boot, peerPubKeys, powVars,
                   pbftVars, bootVars, meta, mined, upperVars, misses, kv>>

InitFork ==
    /\ peers = [n \in ForkNodes |-> SortedSeq(ForkNodes \ {n})]
    /\ store = [n \in ForkNodes |-> [i \in {0} |-> mineUpperGenesisBlock(OttID)]]
    /\ height = [n \in ForkNodes |-> 0]
    /\ pending = [n \in ForkNodes |-> <<>>]
    /\ isMining = [n \in ForkNodes |-> FALSE]
    /\ miningStop = [n \in ForkNodes |-> FALSE]
    /\ GlobalDifficulty = [n \in ForkNodes |-> GenesisDifficulty]
    /\ meta = [n \in ForkNodes |-> OttID]
    /\ cw = [n \in ForkNodes |-> IdleWatcher]
    /\ mined = {}
    /\ boot = [n \in ForkNodes |-> 1]
    /\ crashed = {}
    /\ net = {}
    /\ ev = <<"init", "">>
    /\ submitted = {}
    /\ tasks = EmptyMap
    /\ recv = EmptyMap
    /\ peerPubKeys = EmptyMap
    /\ viewStates = EmptyMap
    /\ consensusInProgress = EmptyMap
    /\ foreign = 0
    /\ isBoot = EmptyMap
    /\ watch = EmptyMap
    /\ anchorMap = EmptyMap
    /\ anchorDb = EmptyMap
    /\ cpBootMap = EmptyMap
    /\ reply = <<>>
    /\ misses = EmptyMap
    /\ kv = EmptyMap

NextFork ==
    \/ \E n \in Nodes : mineUpperBlock(n)
    \/ \E n \in Nodes : \E m \in net : receive(n, m)
    \/ \E n \in Nodes : startChainWatcher(n)
    \/ \E n \in Nodes : resetLocalDB(n)
    \/ \E n \in Nodes : syncChainFetch(n)
    \/ \E n \in Nodes : syncChainAppend(n)

SpecFork == InitFork /\ [][NextFork]_vars

\* C4: a chain-watcher cycle that found its best peer at the node's own height
\* with another last hash, and so reset the store and synced from that peer,
\* ends with the node holding the peer's reported last hash at that height as
\* (a predecessor of) its own last block.
C4_ForkResolved ==
    [][\A n \in Nodes :
          (/\ cw[n].pc \in {"fetch", "append"}
           /\ cw'[n].pc = "idle"
           /\ cw[n].localH = cw[n].bestHeight)
          => /\ height'[n] >= cw[n].bestHeight
             /\ cw[n].bestHeight \in DOMAIN store'[n]
             /\ store'[n][cw[n].bestHeight].block_hash = cw[n].bestHash]_vars

\* C40: a chain-watcher cycle that reset the store ends with the node at a
\* height at least the height the watcher read before the reset, also when the
\* sync fails, is cut short, or the chosen peer is resetting at the same time.
C40_CycleKeepsHeight ==
    [][\A n \in Nodes :
          (/\ cw[n].pc \in {"fetch", "append"}
           /\ cw'[n].pc = "idle")
          => height'[n] >= cw[n].localH]_vars

\* C11: in every store state of a node, every persisted block at an index
\* above 0 carries the chain id of the block persisted at index 0.
C11_ChainIdOfGenesis ==
    \A n \in Nodes : \A i \in DOMAIN store[n] :
        (i > 0 /\ 0 \in DOMAIN store[n]) => store[n][i].ott_id = store[n][0].ott_id

\* the header subset of a persisted block, as the miner hashed it
headerOf(b) ==
    [index |-> b.index, prev_hash |-> b.prev_hash, merkle_root |-> b.merkle_root,
     difficulty |-> b.difficulty, nonce |-> b.nonce]

\* what a client that is not a node may post to /receive of node d: a block
\* on d's tip whose carried hash is the hash of its header ("mined"), the hash
\* of another header with as many leading zeros ("swapped"), or a hash with
\* too few leading zeros ("weak")
ForgedBlocks(d) ==
    IF ~HasBlock(d, height[d]) THEN {}
    ELSE LET prev == store[d][height[d]]
             header == [index |-> prev.index + 1, prev_hash |-> prev.block_hash,
                        merkle_root |-> computeUpperMerkleRoot(Anchors),
                        difficulty |-> GlobalDifficulty[d],
                        nonce |-> <<0, GlobalDifficulty[d]>>]
             carried == {computeHashForPoW(header),
                         computeHashForPoW([header EXCEPT !.merkle_root = sha256Hex(<<"other">>)]),
                         computeHashForPoW([header EXCEPT !.nonce = <<0, 0>>])}
         IN {[type |-> "upperBlock", to |-> d, header |-> header, hash |-> h,
              entries |-> Anchors] : h \in carried}

postUpperBlock(m) ==
    /\ foreign < MaxForeign
    /\ m.header.index <= MaxForkHeight
    /\ foreign' = foreign + 1
    /\ net' = net \cup {m}
    /\ UNCHANGED <<peers, store, height, pending, submitted, ev, boot, peerPubKeys,
                   powVars, viewStates, consensusInProgress, bootVars, laterVars>>

ForgeMiners == {1}      \* the nodes that mine in this scenario

NextForge ==
    \/ \E d \in Nodes : \E m \in ForgedBlocks(d) : postUpperBlock(m)
    \/ \E n \in ForgeMiners : mineUpperBlock(n)
    \/ \E n \in Nodes : \E m \in net : receive(n, m)
    \/ \E n \in Nodes : startChainWatcher(n)
    \/ \E n \in Nodes : resetLocalDB(n)
    \/ \E n \in Nodes : syncChainFetch(n)
    \/ \E n \in Nodes : syncChainAppend(n)

SpecForge == InitFork /\ [][NextForge]_vars

\* C12: every block a node persisted above index 0, on the receive path or on
\* the sync path, carries the block_hash that recomputing it from the block's
\* header subset yields.
C12_HashRecomputed ==
    \A n \in Nodes : \A i \in DOMAIN store[n] :
        i > 0 => store[n][i].block_hash = computeHashForPoW(headerOf(store[n][i]))

-----------------------------------------------------------------------------
(* The PoW revision that carries leaf hashes: /receiveBlock has no prefix   *)
(* check of its own and addBlockToChain builds the block without the nonce  *)
(* and the difficulty of the header                                         *)

\* addBlockToChain: Nonce and Difficulty are not copied from the header and
\* keep the zero value of their type
addBlockToChainLeaf(n, header, hash, elapsed, entries) ==
    onBlockReceived(n, [index |-> header.index, cp_id |-> store[n][0].cp_id,
                        prev_hash |-> header.prev_hash, entries |-> entries,
                        merkle_root |-> header.merkle_root, nonce |-> <<0, 0>>,
                        difficulty |-> 0, block_hash |-> hash,
                        elapsed |-> elapsed])

\* POST /receiveBlock: duplicate-index check, stop flag, addBlockToChain,
\* isMining cleared
receiveBlockLeaf(n, m) ==
    /\ m \in net /\ m.type = "block" /\ m.to = n
    /\ net' = net \ {m}
    /\ IF HasBlock(n, m.header.index)
       THEN /\ ev' = <<"receiveBlock", "duplicate">>
            /\ UNCHANGED <<miningStop, store, height, isMining>>
       ELSE /\ addBlockToChainLeaf(n, m.header, m.hash, m.elapsed, m.entries)
            /\ isMining' = [isMining EXCEPT ![n] = FALSE]
            /\ ev' = <<"receiveBlock", "accepted">>
    /\ UNCHANGED <<peers, pending, GlobalDifficulty, tasks, recv, submitted>>
    /\ UNCHANGED nonPow

\* what a client that is not a node may post to /receiveBlock of node d: a
\* block on d's tip at d's difficulty whose hash has no leading zero
WeakBlocks(d) ==
    IF ~HasBlock(d, height[d]) THEN {}
    ELSE LET header == [mineBlockHeader(d, <<>>) EXCEPT !.nonce = <<0, 0>>]
         IN {[type |-> "block", to |-> d, header |-> header,
              hash |-> computeHashForPoW(header), entries |-> <<>>,
              difficulty |-> header.difficulty, elapsed |-> e, winner |-> 0] :
             e \in ElapsedVals}

postBlock(m) ==
    /\ foreign < MaxForeign
    /\ foreign' = foreign + 1
    /\ net' = net \cup {m}
    /\ UNCHANGED <<peers, store, height, pending, submitted, ev, boot, peerPubKeys,
                   powVars, viewStates, consensusInProgress, bootVars, laterVars>>

NextLeaf ==
    \/ \E n \in ClientNodes : \E r \in Records : Submit(n, r)
    \/ \E n \in Nodes : startMiningWatcher(n)
    \/ \E n \in Nodes : \E m \in net : handleMineStart(n, m)
    \/ \E n \in Nodes : \E t \in tasks[n] : mineBlockAbort(n, t)
    \/ \E n \in Nodes : \E t \in tasks[n] : \E e \in ElapsedVals : mineBlockFound(n, t, e)
    \/ \E n \in Nodes : \E m \in net : receiveBlockLeaf(n, m)
    \/ \E d \in ClientNodes : \E m \in WeakBlocks(d) : postBlock(m)

SpecLeaf == Init /\ [][NextLeaf]_vars

\* C13: every block a node persists through /receiveBlock, mined by itself or
\* broadcast to it, has a block_hash with at least as many leading '0'
\* characters as the difficulty of the header it was mined under.
C13_PowPrefix ==
    [][\A m \in net :
          (/\ m.type = "block" /\ m \notin net'
           /\ ~HasBlock(m.to, m.header.index)
           /\ m.header.index \in DOMAIN store'[m.to]
           /\ store'[m.to][m.header.index].block_hash = m.hash)
          => validHash(m.hash, m.header.difficulty)]_vars

-----------------------------------------------------------------------------
(* PoW network of two nodes with two records: several /mine/start signals   *)
(* and a block from outside meet one node's mining goroutine                *)

RaceNodes == {1, 2}
RaceRecords == {1, 2}

InitRace ==
    /\ peers = [n \in RaceNodes |-> SortedSeq(RaceNodes \ {n})]
    /\ store = [n \in RaceNodes |-> [i \in {0} |-> mineGenesisBlock(1)]]
    /\ height = [n \in RaceNodes |-> 0]
    /\ pending = [n \in RaceNodes |-> <<>>]
    /\ isMining = [n \in RaceNodes |-> FALSE]
    /\ miningStop = [n \in RaceNodes |-> FALSE]
    /\ GlobalDifficulty = [n \in RaceNodes |-> GenesisDifficulty + 1]
    /\ tasks = [n \in RaceNodes |-> {}]
    /\ recv = [n \in RaceNodes |-> {}]
    /\ net = {}
    /\ submitted = {}
    /\ ev = <<"init", "">>
    /\ boot = [n \in RaceNodes |-> 1]
    /\ peerPubKeys = EmptyMap
    /\ viewStates = EmptyMap
    /\ consensusInProgress = EmptyMap
    /\ foreign = 0
    /\ isBoot = EmptyMap
    /\ crashed = {}
    /\ watch = EmptyMap
    /\ meta = EmptyMap
    /\ cw = EmptyMap
    /\ mined = {}
    /\ anchorMap = EmptyMap
    /\ anchorDb = EmptyMap
    /\ cpBootMap = EmptyMap
    /\ reply = <<>>
    /\ misses = EmptyMap
    /\ kv = EmptyMap

NextRace ==
    \/ \E n \in ClientNodes : \E r \in RaceRecords : Submit(n, r)
    \/ \E n \in Nodes : startMiningWatcher(n)
    \/ \E n \in Nodes : \E m \in net : handleMineStart(n, m)
    \/ \E n \in Nodes : \E t \in tasks[n] : mineBlockAbort(n, t)
    \/ \E n \in Nodes : \E t \in tasks[n] : \E e \in ElapsedVals : mineBlockFound(n, t, e)
    \/ \E n \in Nodes : \E m \in net : receiveBlock(n, m)
    \/ \E n \in Nodes : \E m \in recv[n] : receiveBlockAppend(n, m)

SpecRace == InitRace /\ [][NextRace]_vars

\* C21: on one node at most one mining task runs at any moment, whatever the
\* order in which /mine/start and /receiveBlock requests are handled.
C21_OneMiningTask ==
    \A n \in Nodes : Cardinality(tasks[n]) <= 1

\* the block requests node n sends in this step as the winner of a round
OwnBroadcast(n) == {m \in net' \ net : m.type = "block" /\ m.winner = n}

\* C22: once a node holds an accepted block at the index one of its mining
\* tasks works on, that task ends without broadcasting a block of its own.
C22_AcceptCancelsTask ==
    [][\A n \in Nodes : \A t \in tasks[n] :
          (HasBlock(n, t.header.index) /\ t \notin tasks'[n]) => OwnBroadcast(n) = {}]_vars

\* nothing is in flight, handled half-way or being mined
QuiescentRace ==
    /\ net = {}
    /\ \A n \in Nodes : tasks[n] = {} /\ recv[n] = {}

InBlock(r) ==
    \E n \in Nodes : \E i \in DOMAIN store[n] : r \in SeqToSet(store[n][i].entries)

InPending(r) == \E n \in Nodes : r \in SeqToSet(pending[n])

\* C23: a record the mining watcher took out of a pending pool is, once the
\* round is over, in a persisted block or back in a pending pool.
C23_NoRecordLost ==
    QuiescentRace => \A r \in submitted : InBlock(r) \/ InPending(r)

-----------------------------------------------------------------------------
(* PoW network of two nodes, one record and one block without the prefix    *)
(* posted from outside                                                      *)

NextStuck ==
    \/ \E n \in ClientNodes : \E r \in Records : Submit(n, r)
    \/ \E n \in Nodes : startMiningWatcher(n)
    \/ \E n \in Nodes : \E m \in net : handleMineStart(n, m)
    \/ \E n \in Nodes : \E t \in tasks[n] : mineBlockAbort(n, t)
    \/ \E n \in Nodes : \E t \in tasks[n] : \E e \in ElapsedVals : mineBlockFound(n, t, e)
    \/ \E n \in Nodes : \E m \in net : receiveBlock(n, m)
    \/ \E n \in Nodes : \E m \in recv[n] : receiveBlockAppend(n, m)
    \/ \E d \in Nodes : \E m \in WeakBlocks(d) : postBlock(m)

SpecStuck == InitRace /\ [][NextStuck]_vars

\* the watcher ticks, every request is handled, every goroutine runs and
\* every nonce search ends
FairSpecStuck ==
    /\ SpecStuck
    /\ WF_vars(\E n \in Nodes : startMiningWatcher(n))
    /\ WF_vars(\E n \in Nodes : \E m \in net : handleMineStart(n, m))
    /\ WF_vars(\E n \in Nodes : \E t \in tasks[n] : mineBlockAbort(n, t))
    /\ WF_vars(\E n \in Nodes : \E t \in tasks[n] : \E e \in ElapsedVals :
                  mineBlockFound(n, t, e))
    /\ WF_vars(\E n \in Nodes : \E m \in net : receiveBlock(n, m))
    /\ WF_vars(\E n \in Nodes : \E m \in recv[n] : receiveBlockAppend(n, m))

\* C25: after the mining task of a node has ended, as winner, by abort or
\* after an invalid block was received, is_mining of that node returns to
\* false.
C25_MiningFlagReset ==
    \A n \in RaceNodes : (isMining[n] /\ tasks[n] = {}) ~> ~isMining[n]

-----------------------------------------------------------------------------
(* PoW network of two nodes that both find a block for one index, one fast  *)
(* and one within the normal range of adjustDifficulty                      *)

DriftElapsed == {10, 60}  \* seconds of a nonce search: ratio 0.17 and ratio 1.0

NextDrift ==
    \/ \E n \in ClientNodes : \E r \in Records : Submit(n, r)
    \/ \E n \in Nodes : startMiningWatcher(n)
    \/ \E n \in Nodes : \E m \in net : handleMineStart(n, m)
    \/ \E n \in Nodes : \E t \in tasks[n] : mineBlockAbort(n, t)
    \/ \E n \in Nodes : \E t \in tasks[n] : \E e \in DriftElapsed : mineBlockFound(n, t, e)
    \/ \E n \in Nodes : \E m \in net : receiveBlock(n, m)
    \/ \E n \in Nodes : \E m \in recv[n] : receiveBlockAppend(n, m)

SpecDrift == InitRace /\ [][NextDrift]_vars

\* C37: when a node accepts a broadcast block whose difficulty value differs
\* from the node's own, the node's difficulty is that value afterwards.
C37_DifficultyAdopted ==
    [][\A n \in Nodes : \A m \in recv[n] :
          (receiveBlockAppend(n, m) /\ GlobalDifficulty[n] # m.difficulty)
              => GlobalDifficulty'[n] = m.difficulty]_vars

-----------------------------------------------------------------------------
(* adjustDifficulty on its own: one node, the elapsed times of its last     *)
(* blocks and of the block just mined                                       *)

PastElapsed == {0, 25}                    \* elapsed of the two blocks before
NewElapsed == {0, 17, 25, 26, 51, 75, 76} \* elapsed of the block just mined
AdjustIndex == {1, 3}                     \* idx <= 2 reads no earlier block

\* the goroutine of handleMineStart calls adjustDifficulty(idx, elapsed)
callAdjustDifficulty(n, idx, elapsed) ==
    /\ GlobalDifficulty' = [GlobalDifficulty EXCEPT ![n] = adjustDifficulty(n, idx, elapsed)]
    /\ reply' = <<idx, elapsed, GlobalDifficulty[n]>>
    /\ UNCHANGED <<peers, store, height, pending, isMining, miningStop, tasks, recv,
                   net, submitted, ev, boot, peerPubKeys, pbftVars, bootVars, forkVars,
                   anchorMap, anchorDb, cpBootMap, misses, kv>>

\* a node at height 2 whose difficulty is one that adjustDifficulty and the
\* genesis block can produce; of the stored blocks only elapsed is read
InitAdjust ==
    /\ \E e1 \in PastElapsed : \E e2 \in PastElapsed :
          store = [n \in {1} |-> [i \in 0..2 |->
                      [index |-> i,
                       elapsed |-> IF i = 1 THEN e1 ELSE IF i = 2 THEN e2 ELSE 0]]]
    /\ GlobalDifficulty \in [{1} -> 1..(DifficultyCeiling - 1)]
    /\ peers = [n \in {1} |-> <<>>]
    /\ height = [n \in {1} |-> 2]
    /\ pending = [n \in {1} |-> <<>>]
    /\ isMining = [n \in {1} |-> TRUE]
    /\ miningStop = [n \in {1} |-> FALSE]
    /\ tasks = [n \in {1} |-> {}]
    /\ recv = [n \in {1} |-> {}]
    /\ net = {}
    /\ submitted = {}
    /\ ev = <<"init", "">>
    /\ boot = EmptyMap
    /\ peerPubKeys = EmptyMap
    /\ viewStates = EmptyMap
    /\ consensusInProgress = EmptyMap
    /\ foreign = 0
    /\ isBoot = EmptyMap
    /\ crashed = {}
    /\ watch = EmptyMap
    /\ meta = EmptyMap
    /\ cw = EmptyMap
    /\ mined = {}
    /\ anchorMap = EmptyMap
    /\ anchorDb = EmptyMap
    /\ cpBootMap = EmptyMap
    /\ reply = <<>>
    /\ misses = EmptyMap
    /\ kv = EmptyMap

NextAdjust ==
    \E n \in Nodes : \E idx \in AdjustIndex : \E e \in NewElapsed :
        callAdjustDifficulty(n, idx, e)

SpecAdjust == InitAdjust /\ [][NextAdjust]_vars

\* 300 times the ratio of the three-block average to DiffStandardTime, times
\* DiffStandardTime: ratio < 0.85 iff RatioSum < 255 * DiffStandardTime / 100
RatioSum(n, idx, elapsed) ==
    IF idx > 2 THEN store[n][idx - 2].elapsed + store[n][idx - 1].elapsed + elapsed
    ELSE elapsed

\* the step of the difficulty d for that sum: up by one unless that crosses
\* the ceiling, down by one unless that goes below 1, else unchanged
DifficultyStep(d, sum) ==
    IF 100 * sum < 85 * 3 * DiffStandardTime
    THEN (IF d + 1 > DifficultyCeiling THEN d ELSE d + 1)
    ELSE IF 100 * sum > 125 * 3 * DiffStandardTime
    THEN (IF d - 1 < 1 THEN 1 ELSE d - 1)
    ELSE d

\* C36: after adjustDifficulty the difficulty is the old one plus 1 for a
\* ratio below 0.85 (but not above the ceiling 8), the old one minus 1 for a
\* ratio above 1.25 (but not below 1), and the old one otherwise.
C36_DifficultyStep ==
    reply # <<>> =>
        \A n \in Nodes :
            GlobalDifficulty[n] = DifficultyStep(reply[3], RatioSum(n, reply[1], reply[2]))

-----------------------------------------------------------------------------
(* Anchoring and the verified query path: one upper boot, two lower boots *)

UpperNode == 1
LowerBoots == {2, 3}
Committers == {2}       \* the lower boots whose chain grows in this scenario
Unreachable == 9
MaxLowerHeight == 2
Malformed == [signer |-> 0, digest |-> <<"not DER">>]

nonUpper == <<peers, submitted, ev, boot, peerPubKeys, powVars, viewStates,
              consensusInProgress, bootVars, forkVars, misses, kv>>

HosIdOf(l) == <<"HOS", l>>

\* the records lower boot l commits in its block i
LowerEntries(l, i) == IF i = 1 THEN <<<<l, 1>>, <<l, 2>>, <<l, 3>>>> ELSE <<<<l, 4>>>>

\* getLatestRoot: the root_latest key, "" when the store has none
getLatestRoot(l) ==
    IF HasBlock(l, height[l]) THEN store[l][height[l]].merkle_root ELSE EmptyString

RECURSIVE merkleProofFrom(_, _)
merkleProofFrom(level, cur) ==
    IF Len(level) <= 1 THEN <<>>
    ELSE LET lv == IF Len(level) % 2 = 1 THEN Append(level, level[Len(level)]) ELSE level
             step == IF cur % 2 = 0 THEN <<"R", lv[cur + 2]>> ELSE <<"L", lv[cur]>>
         IN <<step>> \o merkleProofFrom(NextLevel(lv), cur \div 2)

\* merkleProof(leaves, index), index counted from 0
merkleProof(leaves, index) ==
    IF index < 0 \/ index >= Len(leaves) THEN <<>> ELSE merkleProofFrom(leaves, index)

RECURSIVE foldProof(_, _, _)
foldProof(computed, proof, i) ==
    IF i > Len(proof) THEN computed
    ELSE foldProof(IF proof[i][1] = "L" THEN pairHash(proof[i][2], computed)
                   ELSE pairHash(computed, proof[i][2]), proof, i + 1)

verifyMerkleProof(leaf, proof, root) == foldProof(leaf, proof, 1) = root

buildSearchResponse(l, blk, entryIndex) ==
    [record |-> blk.entries[entryIndex + 1], block_root |-> blk.merkle_root,
     latest_root |-> getLatestRoot(l), leaf |-> blk.leaf_hashes[entryIndex + 1],
     proof |-> merkleProof(blk.leaf_hashes, entryIndex)]

\* searchClinic: the block the keyword index points to, one item per match
searchClinic(l, keyword) ==
    LET holders == {i \in DOMAIN store[l] : keyword \in SeqToSet(store[l][i].entries)}
    IN IF holders = {} THEN <<>>
       ELSE LET blk == store[l][CHOOSE i \in holders : TRUE]
                at == CHOOSE k \in 1..Len(blk.entries) : blk.entries[k] = keyword
            IN <<buildSearchResponse(l, blk, at - 1)>>

\* submitAnchor: the request lower boot l posts for its block i
submitAnchor(l, i) ==
    [type |-> "addAnchor", to |-> boot[l], hos_id |-> HosIdOf(l), hos_boot |-> l,
     root |-> store[l][i].merkle_root, ts |-> i,
     sig |-> makeAnchorSignature(l, store[l][i].merkle_root, i)]

\* a block is committed on lower boot l, which then runs submitAnchor
lowerCommit(l) ==
    /\ height[l] < MaxLowerHeight
    /\ LET idx == height[l] + 1
           entries == LowerEntries(l, idx)
           leaves == LeafHashes(entries)
           lb == [index |-> idx, entries |-> entries, leaf_hashes |-> leaves,
                  merkle_root |-> merkleRootHex(leaves)]
       IN /\ saveBlockToDB(l, lb)
          /\ net' = net \cup {[type |-> "addAnchor", to |-> boot[l], hos_id |-> HosIdOf(l),
                               hos_boot |-> l, root |-> lb.merkle_root, ts |-> idx,
                               sig |-> makeAnchorSignature(l, lb.merkle_root, idx)]}
    /\ UNCHANGED <<pending, foreign, upperVars, nonUpper>>

\* roots an impostor may put in place of the true one: those of the first blocks
KnownRoots == UNION {{store[l][i].merkle_root : i \in DOMAIN store[l] \cap {0, 1}} :
                       l \in LowerBoots}

\* an anchor request with one field replaced
Tampered(m) ==
    {[m EXCEPT !.root = r] : r \in KnownRoots \ {m.root}}
    \cup {[m EXCEPT !.ts = m.ts + 1]}
    \cup {[m EXCEPT !.sig = Malformed]}
    \cup {[m EXCEPT !.sig = makeAnchorSignature(x, m.root, m.ts)] : x \in LowerBoots \ {m.hos_boot}}
    \cup {[m EXCEPT !.hos_boot = b] : b \in (LowerBoots \cup {Unreachable}) \ {m.hos_boot}}

\* somebody who is not a node posts an /addAnchor request of their own making
postAnchor(m) ==
    /\ foreign < MaxForeign
    /\ foreign' = foreign + 1
    /\ net' = net \cup {m}
    /\ UNCHANGED <<store, height, pending, upperVars, nonUpper>>

\* ecdsa.Verify on the key served by the named boot
ecdsaVerify(pub, digest, sig) ==
    /\ pub = PubKeyOf(sig.signer)
    /\ sig.digest = digest

saveAnchorToDB(u, id, root, ts) ==
    anchorDb' = [anchorDb EXCEPT ![u] = Put(@, id, [root |-> root, ts |-> ts])]

\* the empty address string is NoPeer
getCpBootAddr(u, id) == IF id \in DOMAIN cpBootMap[u] THEN cpBootMap[u][id] ELSE NoPeer

\* broadcastNewCpBoot: keep the address, notify every upper peer
broadcastNewCpBoot(u, id, addr) ==
    cpBootMap' = [cpBootMap EXCEPT ![u] = Put(@, id, addr)]

Answer(h, st, body, offered) ==
    [handler |-> h, status |-> st, body |-> body, offered |-> offered]

\* addAnchor that keeps the anchor before it looks at the signature
addAnchorStoreFirst(u, m) ==
    /\ m \in net /\ m.type = "addAnchor" /\ m.to = u
    /\ net' = net \ {m}
    /\ IF m.hos_boot = Unreachable
       THEN /\ reply' = Answer("addAnchor", 500, <<>>, <<m>>)
            /\ UNCHANGED <<pending, anchorMap, anchorDb, cpBootMap>>
       ELSE /\ appendPending(u, <<[hos_id |-> m.hos_id, lower_root |-> m.root, ts |-> m.ts]>>)
            /\ saveAnchorToDB(u, m.hos_id, m.root, m.ts)
            /\ anchorMap' = [anchorMap EXCEPT ![u] = Put(@, m.hos_id, [root |-> m.root, ts |-> m.ts])]
            /\ IF \/ m.sig = Malformed
                  \/ ~ecdsaVerify(PubKeyOf(m.hos_boot), sha256Hex(<<"msg", m.root, m.ts>>), m.sig)
               THEN /\ reply' = Answer("addAnchor", 403, <<>>, <<m>>)
                    /\ UNCHANGED cpBootMap
               ELSE /\ IF m.hos_boot # getCpBootAddr(u, m.hos_id)
                       THEN broadcastNewCpBoot(u, m.hos_id, m.hos_boot)
                       ELSE UNCHANGED cpBootMap
                    /\ reply' = Answer("addAnchor", 200, <<>>, <<m>>)
    /\ UNCHANGED <<store, height, foreign, nonUpper>>

\* POST /addAnchor on the upper boot
addAnchor(u, m) ==
    /\ m \in net /\ m.type = "addAnchor" /\ m.to = u
    /\ net' = net \ {m}
    /\ IF m.hos_boot = Unreachable
       THEN /\ reply' = Answer("addAnchor", 500, <<>>, <<m>>)
            /\ UNCHANGED <<pending, anchorMap, anchorDb, cpBootMap>>
       ELSE IF \/ m.sig = Malformed
               \/ ~ecdsaVerify(PubKeyOf(m.hos_boot), sha256Hex(<<"msg", m.root, m.ts>>), m.sig)
       THEN /\ reply' = Answer("addAnchor", 403, <<>>, <<m>>)
            /\ UNCHANGED <<pending, anchorMap, anchorDb, cpBootMap>>
       ELSE /\ appendPending(u, <<[hos_id |-> m.hos_id, lower_root |-> m.root, ts |-> m.ts]>>)
            /\ saveAnchorToDB(u, m.hos_id, m.root, m.ts)
            /\ anchorMap' = [anchorMap EXCEPT ![u] = Put(@, m.hos_id, [root |-> m.root, ts |-> m.ts])]
            /\ IF m.hos_boot # getCpBootAddr(u, m.hos_id)
               THEN broadcastNewCpBoot(u, m.hos_id, m.hos_boot)
               ELSE UNCHANGED cpBootMap
            /\ reply' = Answer("addAnchor", 200, <<>>, <<m>>)
    /\ UNCHANGED <<store, height, foreign, nonUpper>>

\* verifyHosResults without the comparison of latest_root with the anchor
verifyHosResultsNoAnchorCheck(u, id, items) ==
    IF id \notin DOMAIN anchorMap[u] THEN <<"error", <<>>>>
    ELSE <<"ok", SelectSeq(items, LAMBDA it :
                     verifyMerkleProof(it.leaf, it.proof, it.block_root))>>

\* verifyHosResults: <<"error", _>> without an anchor, <<"panic", _>> when the
\* log line of a mismatch slices a root shorter than ten characters, else the
\* items that pass both tests
verifyHosResults(u, id, items) ==
    IF id \notin DOMAIN anchorMap[u] THEN <<"error", <<>>>>
    ELSE LET anchorRoot == anchorMap[u][id].root
         IN IF \E i \in 1..Len(items) :
                   /\ items[i].latest_root # anchorRoot
                   /\ (items[i].latest_root = EmptyString \/ anchorRoot = EmptyString)
            THEN <<"panic", <<>>>>
            ELSE <<"ok", SelectSeq(items, LAMBDA it :
                             /\ it.latest_root = anchorRoot
                             /\ verifyMerkleProof(it.leaf, it.proof, it.block_root))>>

\* what the server at the lower boot's address may answer to /search: the
\* items of searchClinic, as they are or with one field replaced
Variants(it, blk) ==
    {it}
    \cup {[it EXCEPT !.latest_root = r] : r \in KnownRoots \cup {EmptyString}}
    \cup {[it EXCEPT !.block_root = r] : r \in KnownRoots}
    \cup {[it EXCEPT !.leaf = blk.leaf_hashes[1]]}
    \cup {[it EXCEPT !.proof = <<>>]}

Offers(l, keyword) ==
    LET honest == searchClinic(l, keyword)
    IN IF Len(honest) = 0 THEN {}
       ELSE LET blk == store[l][CHOOSE i \in DOMAIN store[l] :
                                   store[l][i].merkle_root = honest[1].block_root]
                vs == Variants(honest[1], blk)
            IN {<<v, honest[1]>> : v \in vs}

Keywords == {<<l, 3>> : l \in Committers}

\* handleHosSearch: route to the provider's boot, verify what it answers
handleHosSearch(u, id, keyword, items) ==
    /\ LET hosAddr == getCpBootAddr(u, id)
       IN IF hosAddr = NoPeer \/ Offers(hosAddr, keyword) = {}
          THEN /\ items = <<>>
               /\ reply' = Answer("search", 502, <<>>, <<>>)
          ELSE /\ items \in Offers(hosAddr, keyword)
               /\ LET res == verifyHosResults(u, id, items)
                  IN reply' = Answer("search",
                                     IF res[1] = "ok" THEN 200
                                     ELSE IF res[1] = "error" THEN 500 ELSE 0,
                                     res[2], items)
    /\ UNCHANGED <<store, height, pending, net, foreign, anchorMap, anchorDb,
                   cpBootMap, nonUpper>>

UpperStations == {UpperNode} \cup LowerBoots

InitUpper ==
    /\ peers = [n \in UpperStations |-> <<>>]
    /\ store = [n \in UpperStations |->
                  [i \in {0} |-> [index |-> 0, entries |-> <<>>, leaf_hashes |-> <<>>,
                                  merkle_root |-> sha256Hex(<<"empty">>)]]]
    /\ height = [n \in UpperStations |-> 0]
    /\ pending = [n \in UpperStations |-> <<>>]
    /\ boot = [n \in UpperStations |-> UpperNode]
    /\ anchorMap = [n \in {UpperNode} |-> EmptyMap]
    /\ anchorDb = [n \in {UpperNode} |-> EmptyMap]
    /\ cpBootMap = [n \in {UpperNode} |-> EmptyMap]
    /\ reply = Answer("none", 0, <<>>, <<>>)
    /\ net = {}
    /\ foreign = 0
    /\ submitted = {}
    /\ ev = <<"init", "">>
    /\ peerPubKeys = EmptyMap
    /\ isMining = EmptyMap
    /\ miningStop = EmptyMap
    /\ GlobalDifficulty = EmptyMap
    /\ tasks = EmptyMap
    /\ recv = EmptyMap
    /\ viewStates = EmptyMap
    /\ consensusInProgress = EmptyMap
    /\ isBoot = EmptyMap
    /\ crashed = {}
    /\ watch = EmptyMap
    /\ meta = EmptyMap
    /\ cw = EmptyMap
    /\ mined = {}
    /\ misses = EmptyMap
    /\ kv = EmptyMap

NextUpper ==
    \/ \E l \in Committers : lowerCommit(l)
    \/ \E l \in Committers : \E m \in Tampered(submitAnchor(l, height[l])) :
          height[l] >= 1 /\ postAnchor(m)
    \/ \E m \in net : addAnchor(UpperNode, m)
    \/ \E l \in Committers, keyword \in Keywords :
          \E items \in {<<>>} \cup Offers(l, keyword) :
             handleHosSearch(UpperNode, HosIdOf(l), keyword, items)

SpecUpper == InitUpper /\ [][NextUpper]_vars

\* the signature of request m verifies against the key of the boot it names,
\* for the root and the timestamp it carries
SignatureVerifies(m) ==
    /\ m.sig # Malformed
    /\ ecdsaVerify(PubKeyOf(m.hos_boot), sha256Hex(<<"msg", m.root, m.ts>>), m.sig)

\* C5: every item the upper tier's query returns was offered by the provider,
\* carries a latest_root equal to the root kept in anchor_map for that provider
\* and a Merkle proof that verifies its leaf against its block_root; an item
\* failing either test is not in the answer.
C5_OnlyVerifiedReturned ==
    [][\A l \in Committers, keyword \in Keywords :
         \A items \in {reply'.offered} :     \* the handler records what it was offered
            handleHosSearch(UpperNode, HosIdOf(l), keyword, items)
            => /\ SeqToSet(reply'.body) \subseteq SeqToSet(items)
               /\ \A i \in 1..Len(reply'.body) :
                     /\ HosIdOf(l) \in DOMAIN anchorMap[UpperNode]
                     /\ reply'.body[i].latest_root = anchorMap[UpperNode][HosIdOf(l)].root
                     /\ verifyMerkleProof(reply'.body[i].leaf, reply'.body[i].proof,
                                          reply'.body[i].block_root)]_vars

\* a query was answered with one of two offered items, the other one dropped
\* because its latest_root is not the anchored root
C5_Witness ==
    /\ reply.handler = "search"
    /\ reply.status = 200
    /\ Len(reply.offered) = 2
    /\ Len(reply.body) = 1
    /\ \E j \in 1..2 : reply.offered[j].latest_root # reply.body[1].latest_root

\* C6: an /addAnchor request whose signature does not verify against the key
\* of the boot it names, for the root and timestamp it carries, is answered
\* with 403 and changes neither the pending pool, nor the persisted anchor
\* entries, nor anchor_map of the upper node.
C6_BadSignatureRejected ==
    [][\A m \in net :
         (/\ addAnchor(UpperNode, m)
          /\ m.hos_boot # Unreachable
          /\ ~SignatureVerifies(m))
         => /\ reply'.status = 403
            /\ pending' = pending
            /\ anchorDb' = anchorDb
            /\ anchorMap' = anchorMap]_vars

\* a request with a replaced root was answered with 403 while an anchor of the
\* same provider was already held
C6_Witness ==
    /\ reply.handler = "addAnchor"
    /\ reply.status = 403
    /\ reply.offered[1].hos_id \in DOMAIN anchorMap[UpperNode]
    /\ reply.offered[1].root # anchorMap[UpperNode][reply.offered[1].hos_id].root
    /\ reply.offered[1].sig # Malformed
    /\ reply.offered[1].sig.signer = reply.offered[1].hos_boot
    /\ Len(pending[UpperNode]) = 1

\* C20: a query of the upper tier for a provider id that the provider boot
\* map does not hold is answered with status 404.
C20_UnknownProvider404 ==
    [][\A l \in Committers, keyword \in Keywords :
         (/\ handleHosSearch(UpperNode, HosIdOf(l), keyword, <<>>)
          /\ HosIdOf(l) \notin DOMAIN cpBootMap[UpperNode])
         => reply'.status = 404]_vars

\* C38: an /addAnchor request for a provider whose stored anchor has a
\* timestamp that is not before the request's is answered with a rejection
\* and leaves the stored anchor as it is.
C38_AnchorTsOrder ==
    [][\A m \in net :
         (/\ addAnchor(UpperNode, m)
          /\ m.hos_id \in DOMAIN anchorMap[UpperNode]
          /\ m.ts <= anchorMap[UpperNode][m.hos_id].ts)
         => /\ reply'.status # 200
            /\ anchorMap'[UpperNode][m.hos_id] = anchorMap[UpperNode][m.hos_id]]_vars

-----------------------------------------------------------------------------
(* Join: POST /register on the boot, /addPeer on the peers it notifies *)

RegBoot == 1
RegPeers == {2}          \* the peers that joined before
Joiners == {3, 4}
ForeignChain == <<"HOS", 7>>

nonRegister == <<height, pending, submitted, ev, boot, powVars, pbftVars, bootVars,
                 forkVars, anchorMap, anchorDb, cpBootMap, misses, kv>>

addressYN(n, address) == address \in SeqToSet(peers[n])

\* the requests a client may send; the empty address is NoPeer, the empty key
\* is EmptyString
RegisterRequests ==
    [method : {"POST", "GET"}, hos_id : {HosIdOf(RegBoot), ForeignChain},
     addr : {NoPeer} \cup Joiners, pub_key : {EmptyString, PubKeyOf(3)}]

\* notifyNewPeerWithKey: one /addPeer request per peer other than the new one
notifyNewPeerWithKey(b, list, newAddr, newPubKey) ==
    {[type |-> "addPeer", to |-> q, addr |-> newAddr, pub_key |-> newPubKey] :
        q \in SeqToSet(list) \ {newAddr, b}}

\* registerPeer that enrols the sender before it compares the chain id
registerPeerEnrolFirst(b, req) ==
    /\ IF req.method # "POST"
       THEN /\ reply' = Answer("register", 405, <<>>, <<req>>)
            /\ UNCHANGED <<peers, peerPubKeys, net>>
       ELSE IF req.addr = NoPeer \/ req.pub_key = EmptyString
       THEN /\ reply' = Answer("register", 400, <<>>, <<req>>)
            /\ UNCHANGED <<peers, peerPubKeys, net>>
       ELSE /\ peers' = [peers EXCEPT ![b] =
                           IF addressYN(b, req.addr) THEN @ ELSE Append(@, req.addr)]
            /\ peerPubKeys' = [peerPubKeys EXCEPT ![b] = Put(@, req.addr, req.pub_key)]
            /\ IF ~HasBlock(b, 0) \/ store[b][0].hos_id # req.hos_id
               THEN /\ reply' = Answer("register", 403, <<>>, <<req>>)
                    /\ UNCHANGED net
               ELSE /\ net' = net \cup notifyNewPeerWithKey(b, peers'[b], req.addr, req.pub_key)
                    /\ reply' = Answer("register", 200,
                                       <<Put([a \in DOMAIN peerPubKeys[b] \ {req.addr} |->
                                                peerPubKeys[b][a]], b, PubKeyOf(b))>>,
                                       <<req>>)
    /\ UNCHANGED <<store, foreign, nonRegister>>

\* POST /register on boot b
registerPeer(b, req) ==
    /\ IF req.method # "POST"
       THEN /\ reply' = Answer("register", 405, <<>>, <<req>>)
            /\ UNCHANGED <<peers, peerPubKeys, net>>
       ELSE IF req.addr = NoPeer \/ req.pub_key = EmptyString
       THEN /\ reply' = Answer("register", 400, <<>>, <<req>>)
            /\ UNCHANGED <<peers, peerPubKeys, net>>
       ELSE IF ~HasBlock(b, 0) \/ store[b][0].hos_id # req.hos_id
       THEN /\ reply' = Answer("register", 403, <<>>, <<req>>)
            /\ UNCHANGED <<peers, peerPubKeys, net>>
       ELSE /\ peers' = [peers EXCEPT ![b] =
                           IF addressYN(b, req.addr) THEN @ ELSE Append(@, req.addr)]
            /\ peerPubKeys' = [peerPubKeys EXCEPT ![b] = Put(@, req.addr, req.pub_key)]
            /\ net' = net \cup notifyNewPeerWithKey(b, peers'[b], req.addr, req.pub_key)
            /\ reply' = Answer("register", 200,
                               <<Put([a \in DOMAIN peerPubKeys[b] \ {req.addr} |->
                                        peerPubKeys[b][a]], b, PubKeyOf(b))>>,
                               <<req>>)
    /\ UNCHANGED <<store, foreign, nonRegister>>

\* POST /addPeer on node n: addPeerInternal keeps the key, appends a new address
addPeer(n, m) ==
    /\ m \in net /\ m.type = "addPeer" /\ m.to = n
    /\ net' = net \ {m}
    /\ IF m.addr = NoPeer \/ m.pub_key = EmptyString
       THEN UNCHANGED <<peers, peerPubKeys>>
       ELSE /\ peers' = [peers EXCEPT ![n] =
                           IF addressYN(n, m.addr) THEN @ ELSE Append(@, m.addr)]
            /\ peerPubKeys' = [peerPubKeys EXCEPT ![n] = Put(@, m.addr, m.pub_key)]
    /\ UNCHANGED <<store, reply, foreign, nonRegister>>

RegStations == {RegBoot} \cup RegPeers

InitRegister ==
    /\ peers = [n \in RegStations |-> SortedSeq(RegStations \ {n})]
    /\ peerPubKeys = [n \in RegStations |-> [a \in RegStations \ {n} |-> PubKeyOf(a)]]
    /\ store = [n \in RegStations |->
                  [i \in {0} |-> [index |-> 0, hos_id |-> HosIdOf(RegBoot)]]]
    /\ height = [n \in RegStations |-> 0]
    /\ boot = [n \in RegStations |-> RegBoot]
    /\ reply = Answer("none", 0, <<>>, <<>>)
    /\ net = {}
    /\ foreign = 0
    /\ pending = EmptyMap
    /\ submitted = {}
    /\ ev = <<"init", "">>
    /\ isMining = EmptyMap
    /\ miningStop = EmptyMap
    /\ GlobalDifficulty = EmptyMap
    /\ tasks = EmptyMap
    /\ recv = EmptyMap
    /\ viewStates = EmptyMap
    /\ consensusInProgress = EmptyMap
    /\ isBoot = EmptyMap
    /\ crashed = {}
    /\ watch = EmptyMap
    /\ meta = EmptyMap
    /\ cw = EmptyMap
    /\ mined = {}
    /\ anchorMap = EmptyMap
    /\ anchorDb = EmptyMap
    /\ cpBootMap = EmptyMap
    /\ misses = EmptyMap
    /\ kv = EmptyMap

NextRegister ==
    \/ \E req \in RegisterRequests : registerPeer(RegBoot, req)
    \/ \E n \in RegPeers : \E m \in net : addPeer(n, m)

SpecRegister == InitRegister /\ [][NextRegister]_vars

\* the request names a chain other than the one of the boot's genesis block
ForeignChainRequest(b, req) == ~HasBlock(b, 0) \/ store[b][0].hos_id # req.hos_id

-----------------------------------------------------------------------------
(* Boot watcher: every node probes its boot and counts consecutive misses *)

WatchNodes == {1, 2, 3}
MissLimit == 3

\* startBootWatcher: one tick of node n's ticker
startBootWatcher(n) ==
    /\ n \notin crashed
    /\ boot[n] # NoPeer
    /\ IF boot[n] = n /\ isBoot[n]
       THEN /\ misses' = [misses EXCEPT ![n] = 0]
            /\ ev' = <<"startBootWatcher", "skip">>
            /\ UNCHANGED <<boot, isBoot, net>>
       ELSE IF probeStatus(boot[n])
       THEN /\ misses' = [misses EXCEPT ![n] = 0]
            /\ ev' = <<"startBootWatcher", "ok">>
            /\ UNCHANGED <<boot, isBoot, net>>
       ELSE IF misses[n] + 1 >= MissLimit
       THEN /\ electAndSwitch(n, peers[n])
            /\ misses' = [misses EXCEPT ![n] = 0]
            /\ ev' = <<"startBootWatcher", "election">>
       ELSE /\ misses' = [misses EXCEPT ![n] = @ + 1]
            /\ ev' = <<"startBootWatcher", "miss">>
            /\ UNCHANGED <<boot, isBoot, net>>
    /\ UNCHANGED <<peers, height, crashed, watch, store, pending, submitted, peerPubKeys,
                   powVars, pbftVars, forkVars, upperVars, kv>>

InitBootWatch ==
    /\ peers = [n \in WatchNodes |-> SortedSeq(WatchNodes \ {n})]
    /\ height \in [WatchNodes -> BootHeights]
    /\ boot = [n \in WatchNodes |-> 1]
    /\ isBoot = [n \in WatchNodes |-> n = 1]
    /\ misses = [n \in WatchNodes |-> 0]
    /\ kv = EmptyMap
    /\ crashed = {}
    /\ watch = [n \in WatchNodes |-> 1]
    /\ net = {}
    /\ store = EmptyMap
    /\ pending = EmptyMap
    /\ submitted = {}
    /\ ev = <<"init", "">>
    /\ peerPubKeys = EmptyMap
    /\ viewStates = EmptyMap
    /\ consensusInProgress = EmptyMap
    /\ foreign = 0
    /\ isMining = EmptyMap
    /\ miningStop = EmptyMap
    /\ GlobalDifficulty = EmptyMap
    /\ tasks = EmptyMap
    /\ recv = EmptyMap
    /\ meta = EmptyMap
    /\ cw = EmptyMap
    /\ mined = {}
    /\ anchorMap = EmptyMap
    /\ anchorDb = EmptyMap
    /\ cpBootMap = EmptyMap
    /\ reply = <<>>

NextBootWatch ==
    \/ \E b \in Nodes : crashBoot(b)
    \/ \E n \in Nodes : startBootWatcher(n)
    \/ \E n \in Nodes : \E m \in net : bootNotify(n, m)

SpecBootWatch == InitBootWatch /\ [][NextBootWatch]_vars

\* node n's next probe of its boot is the third one in a row to fail
ThirdMiss(n) ==
    /\ ~(boot[n] = n /\ isBoot[n])
    /\ ~probeStatus(boot[n])
    /\ misses[n] = MissLimit - 1

\* C9: when a node's probe of its boot fails for the third time in a row, the
\* boot leaves that node's peer set and the node runs one boot election.
C9_BootRemovedOneElection ==
    [][\A n \in Nodes :
         (startBootWatcher(n) /\ ThirdMiss(n))
         => /\ boot[n] \notin SeqToSet(peers'[n])
            /\ ev' = <<"startBootWatcher", "election">>]_vars

-----------------------------------------------------------------------------
(* Store writes of one append: /receive of the first ledger revision, one   *)
(* db.Put after the other                                                   *)

AppendNodes == {1}
ChainCp == <<"CP-A">>

\* LowerBlock.computeHash: the header subset with the chain id
computeHashLower(b) ==
    sha256Hex(<<"blk", b.index, b.cp_id, b.prev_hash, b.merkle_root, b.nonce,
                b.difficulty>>)

validateLowerBlockCp(newBlk, prevBlk) ==
    /\ prevBlk.index + 1 = newBlk.index
    /\ prevBlk.block_hash = newBlk.prev_hash
    /\ prevBlk.cp_id = newBlk.cp_id
    /\ merkleRootHex(LeafHashes(newBlk.entries)) = newBlk.merkle_root
    /\ computeHashLower(newBlk) = newBlk.block_hash

\* the keys saveBlockToDB and updateIndicesForBlock write besides block_<i>:
\* hash_<h>, root_latest, and cid_<id> of every entry (a record stands for
\* its content id; it has no fingerprint and no info)
hashKey(b) == <<"hash", b.block_hash>>
rootKey == <<"root_latest">>
cidKey(r) == <<"cid", r>>

\* the order of the Puts of one append
PutOrder == <<"block", "hash", "root", "cid", "height">>

StepAfter(pc) == IF pc = "height" THEN "done"
                 ELSE PutOrder[(CHOOSE k \in 1..Len(PutOrder) : PutOrder[k] = pc) + 1]

\* a peer's gossip of the next block on node n's tip with one record
GossipBlocks(n) ==
    IF ~HasBlock(n, height[n]) \/ height[n] >= MaxLowerHeight THEN {}
    ELSE LET prev == store[n][height[n]]
             r0 == prev.index + 1
             b == [index |-> prev.index + 1, cp_id |-> prev.cp_id,
                   prev_hash |-> prev.block_hash, entries |-> <<r0>>,
                   merkle_root |-> merkleRootHex(LeafHashes(<<r0>>)),
                   nonce |-> <<0, 0>>, difficulty |-> 0, block_hash |-> EmptyString,
                   elapsed |-> 0]
         IN {[type |-> "lowerBlock", to |-> n,
              block |-> [b EXCEPT !.block_hash = computeHashLower(b)]]}

postLowerBlock(m) ==
    /\ m \notin net
    /\ net' = net \cup {m}
    /\ UNCHANGED <<peers, store, height, pending, submitted, ev, boot, peerPubKeys,
                   powVars, pbftVars, bootVars, laterVars>>

\* POST /receive up to the first Put: chainMu, height meta, last block, stale
\* or duplicate index, validateLowerBlock
receiveLowerBlock(n, m) ==
    /\ m \in net /\ m.type = "lowerBlock" /\ m.to = n
    /\ n \notin crashed
    /\ recv[n] = {}
    /\ net' = net \ {m}
    /\ IF height[n] < 0 THEN ev' = <<"receiveBlock", 503>> /\ UNCHANGED recv
       ELSE IF ~HasBlock(n, height[n]) THEN ev' = <<"receiveBlock", 500>> /\ UNCHANGED recv
       ELSE IF m.block.index <= store[n][height[n]].index
            THEN ev' = <<"receiveBlock", 409>> /\ UNCHANGED recv
       ELSE IF ~validateLowerBlockCp(m.block, store[n][height[n]])
            THEN ev' = <<"receiveBlock", 400>> /\ UNCHANGED recv
       ELSE /\ recv' = [recv EXCEPT ![n] = {[block |-> m.block, pc |-> "block"]}]
            /\ UNCHANGED ev
    /\ UNCHANGED <<peers, store, height, pending, submitted, boot, peerPubKeys,
                   isMining, miningStop, GlobalDifficulty, tasks, pbftVars, bootVars,
                   laterVars>>

\* the next db.Put of the handler h: it fails and the handler answers 500, or
\* it writes its key; after height_latest the handler answers 200
dbPut(n, h, ok) ==
    /\ h \in recv[n]
    /\ n \notin crashed
    /\ IF ~ok
       THEN /\ recv' = [recv EXCEPT ![n] = {}]
            /\ ev' = <<"receiveBlock", 500>>
            /\ UNCHANGED <<store, height, kv>>
       ELSE /\ recv' = [recv EXCEPT ![n] =
                   IF h.pc = "height" THEN {} ELSE {[h EXCEPT !.pc = StepAfter(h.pc)]}]
            /\ ev' = IF h.pc = "height" THEN <<"receiveBlock", 200>> ELSE ev
            /\ store' = IF h.pc = "block"
                        THEN [store EXCEPT ![n] = Put(@, h.block.index, h.block)]
                        ELSE store
            /\ kv' = IF h.pc = "hash"
                     THEN [kv EXCEPT ![n] = Put(@, hashKey(h.block), h.block)]
                     ELSE IF h.pc = "root"
                     THEN [kv EXCEPT ![n] = Put(@, rootKey, h.block.merkle_root)]
                     ELSE IF h.pc = "cid"
                     THEN [kv EXCEPT ![n] = Put(@, cidKey(h.block.entries[1]),
                                                <<h.block.index, 0>>)]
                     ELSE kv
            /\ height' = IF h.pc = "height"
                         THEN [height EXCEPT ![n] = h.block.index]
                         ELSE height
    /\ UNCHANGED <<peers, pending, net, submitted, boot, peerPubKeys, isMining,
                   miningStop, GlobalDifficulty, tasks, pbftVars, bootVars, forkVars,
                   upperVars, misses>>

\* the process of node n stops; the handler under way is gone with it
stopNode(n) ==
    /\ n \notin crashed
    /\ crashed' = crashed \cup {n}
    /\ recv' = [recv EXCEPT ![n] = {}]
    /\ UNCHANGED <<peers, store, height, pending, net, submitted, ev, boot, peerPubKeys,
                   isMining, miningStop, GlobalDifficulty, tasks, pbftVars, isBoot, watch,
                   laterVars>>

\* the process starts again on the same store: block_0 exists, nothing is written
startNode(n) ==
    /\ n \in crashed
    /\ crashed' = crashed \ {n}
    /\ UNCHANGED <<peers, store, height, pending, net, submitted, ev, boot, peerPubKeys,
                   powVars, pbftVars, isBoot, watch, laterVars>>

InitAppend ==
    /\ peers = [n \in AppendNodes |-> <<>>]
    /\ store = [n \in AppendNodes |-> [i \in {0} |-> mineGenesisBlock(ChainCp)]]
    /\ height = [n \in AppendNodes |-> 0]
    /\ kv = [n \in AppendNodes |->
               Put(Put(EmptyMap, hashKey(mineGenesisBlock(ChainCp)), mineGenesisBlock(ChainCp)),
                   rootKey, mineGenesisBlock(ChainCp).merkle_root)]
    /\ recv = [n \in AppendNodes |-> {}]
    /\ crashed = {}
    /\ net = {}
    /\ ev = <<"init", "">>
    /\ pending = [n \in AppendNodes |-> <<>>]
    /\ submitted = {}
    /\ boot = [n \in AppendNodes |-> 1]
    /\ isMining = EmptyMap
    /\ miningStop = EmptyMap
    /\ GlobalDifficulty = EmptyMap
    /\ tasks = EmptyMap
    /\ peerPubKeys = EmptyMap
    /\ viewStates = EmptyMap
    /\ consensusInProgress = EmptyMap
    /\ foreign = 0
    /\ isBoot = EmptyMap
    /\ watch = EmptyMap
    /\ meta = EmptyMap
    /\ cw = EmptyMap
    /\ mined = {}
    /\ anchorMap = EmptyMap
    /\ anchorDb = EmptyMap
    /\ cpBootMap = EmptyMap
    /\ reply = <<>>
    /\ misses = EmptyMap

NextAppend ==
    \/ \E n \in Nodes : \E m \in GossipBlocks(n) : postLowerBlock(m)
    \/ \E n \in Nodes : \E m \in net : receiveLowerBlock(n, m)
    \/ \E n \in Nodes : \E h \in recv[n] : \E ok \in BOOLEAN : dbPut(n, h, ok)
    \/ \E n \in Nodes : stopNode(n)
    \/ \E n \in Nodes : startNode(n)

SpecAppend == InitAppend /\ [][NextAppend]_vars

\* the writes of block b that are visible in node n's store
VisibleWrites(n, b) ==
    {w \in SeqToSet(PutOrder) :
        \/ w = "block" /\ HasBlock(n, b.index) /\ store[n][b.index] = b
        \/ w = "hash" /\ hashKey(b) \in DOMAIN kv[n]
        \/ w = "root" /\ rootKey \in DOMAIN kv[n] /\ kv[n][rootKey] = b.merkle_root
                      /\ height[n] <= b.index
        \/ w = "cid" /\ \E k \in 1..Len(b.entries) :
                           /\ cidKey(b.entries[k]) \in DOMAIN kv[n]
                           /\ kv[n][cidKey(b.entries[k])][1] = b.index
        \/ w = "height" /\ height[n] >= b.index}

\* C15: once no append is under way on a node, every block above the genesis
\* has either all of its writes (block_<i>, hash_<h>, root_latest, the index
\* entries, height_latest) visible in the store or none of them.
C15_AllOrNothing ==
    \A n \in Nodes : recv[n] = {} =>
        \A i \in DOMAIN store[n] :
            i > 0 => VisibleWrites(n, store[n][i]) = SeqToSet(PutOrder)

-----------------------------------------------------------------------------
(* CryptoCore as a function library: roots, proofs and their verification,  *)
(* in the raw-bytes revision and in the padded revision                     *)

MaxLeaves == 3
LeafValues == {hashContentRecord(1), hashContentRecord(2)}
LeafLists == UNION {[1..k -> LeafValues] : k \in 0..MaxLeaves}
Library == 1            \* the one station of this scenario

\* sha256Hex([]byte{})
EmptyDigest == sha256Hex(<<"empty">>)

\* merkleRootHex of the padded revision: SHA256("") for no leaf, the leaf
\* itself for one leaf
merkleRootHexPadded(leaves) ==
    IF Len(leaves) = 0 THEN EmptyDigest
    ELSE IF Len(leaves) = 1 THEN leaves[1]
    ELSE ReduceLevels(leaves)

\* merkleProof of the raw-bytes revision: entries {sibling, position}; a node
\* that is the last of a level of odd size gets no entry for that level
RECURSIVE merkleProofRawFrom(_, _)
merkleProofRawFrom(level, current) ==
    IF Len(level) <= 1 THEN <<>>
    ELSE LET siblingIdx == IF current % 2 = 0 THEN current + 1 ELSE current - 1
             entry == IF siblingIdx < Len(level)
                      THEN <<<<level[siblingIdx + 1],
                               IF current % 2 = 0 THEN "R" ELSE "L">>>>
                      ELSE <<>>
         IN entry \o merkleProofRawFrom(NextLevel(level), current \div 2)

merkleProofRaw(leafHashes, idx) ==
    IF idx < 0 \/ idx >= Len(leafHashes) THEN <<>> ELSE merkleProofRawFrom(leafHashes, idx)

RECURSIVE foldProofRaw(_, _, _)
foldProofRaw(h, proof, i) ==
    IF i > Len(proof) THEN h
    ELSE foldProofRaw(IF proof[i][2] = "L" THEN pairHash(proof[i][1], h)
                      ELSE pairHash(h, proof[i][1]), proof, i + 1)

verifyMerkleProofRaw(leafHex, rootHex, proof) == foldProofRaw(leafHex, proof, 1) = rootHex

AnchorRecordsOf(leaves) == [i \in 1..Len(leaves) |-> [cp_id |-> i, lower_root |-> leaves[i]]]

\* computeUpperMerkleRoot of the padded revision
computeUpperMerkleRootPadded(records) ==
    IF Len(records) = 0 THEN EmptyString
    ELSE merkleRootHexPadded([i \in 1..Len(records) |-> records[i].lower_root])

\* one call of a root function on the leaf list at hand
callRoot(fn) ==
    /\ fn \in {"merkleRootHex", "merkleRootHexPadded", "computeUpperMerkleRootPadded"}
    /\ reply' = [fn |-> fn, index |-> 0, proof |-> <<>>, ok |-> TRUE,
                 root |-> IF fn = "merkleRootHex" THEN merkleRootHex(pending[Library])
                          ELSE IF fn = "merkleRootHexPadded"
                          THEN merkleRootHexPadded(pending[Library])
                          ELSE computeUpperMerkleRootPadded(AnchorRecordsOf(pending[Library]))]
    /\ UNCHANGED <<peers, store, height, pending, net, submitted, ev, boot, peerPubKeys,
                   powVars, pbftVars, bootVars, forkVars, anchorMap, anchorDb, cpBootMap,
                   misses, kv>>

\* proof of leaf i, then its verification against the root, raw-bytes revision
callProofRaw(i) ==
    /\ i \in 0..(Len(pending[Library]) - 1)
    /\ LET leaves == pending[Library]
           proof == merkleProofRaw(leaves, i)
           root == merkleRootHex(leaves)
       IN reply' = [fn |-> "verifyMerkleProofRaw", index |-> i, proof |-> proof,
                    ok |-> verifyMerkleProofRaw(leaves[i + 1], root, proof), root |-> root]
    /\ UNCHANGED <<peers, store, height, pending, net, submitted, ev, boot, peerPubKeys,
                   powVars, pbftVars, bootVars, forkVars, anchorMap, anchorDb, cpBootMap,
                   misses, kv>>

\* the same in the padded revision
callProofPadded(i) ==
    /\ i \in 0..(Len(pending[Library]) - 1)
    /\ LET leaves == pending[Library]
           proof == merkleProof(leaves, i)
           root == merkleRootHexPadded(leaves)
       IN reply' = [fn |-> "verifyMerkleProof", index |-> i, proof |-> proof,
                    ok |-> verifyMerkleProof(leaves[i + 1], proof, root), root |-> root]
    /\ UNCHANGED <<peers, store, height, pending, net, submitted, ev, boot, peerPubKeys,
                   powVars, pbftVars, bootVars, forkVars, anchorMap, anchorDb, cpBootMap,
                   misses, kv>>

InitMerkle ==
    /\ pending \in [{Library} -> LeafLists]
    /\ reply = [fn |-> "none", index |-> 0, proof |-> <<>>, ok |-> TRUE, root |-> EmptyString]
    /\ peers = [n \in {Library} |-> <<>>]
    /\ store = EmptyMap
    /\ height = EmptyMap
    /\ net = {}
    /\ submitted = {}
    /\ ev = <<"init", "">>
    /\ boot = EmptyMap
    /\ isMining = EmptyMap
    /\ miningStop = EmptyMap
    /\ GlobalDifficulty = EmptyMap
    /\ tasks = EmptyMap
    /\ recv = EmptyMap
    /\ peerPubKeys = EmptyMap
    /\ viewStates = EmptyMap
    /\ consensusInProgress = EmptyMap
    /\ foreign = 0
    /\ isBoot = EmptyMap
    /\ crashed = {}
    /\ watch = EmptyMap
    /\ meta = EmptyMap
    /\ cw = EmptyMap
    /\ mined = {}
    /\ anchorMap = EmptyMap
    /\ anchorDb = EmptyMap
    /\ cpBootMap = EmptyMap
    /\ misses = EmptyMap
    /\ kv = EmptyMap

NextMerkle ==
    \/ \E fn \in {"merkleRootHex", "merkleRootHexPadded", "computeUpperMerkleRootPadded"} :
          callRoot(fn)
    \/ \E i \in 0..(MaxLeaves - 1) : callProofRaw(i)
    \/ \E i \in 0..(MaxLeaves - 1) : callProofPadded(i)

SpecMerkle == InitMerkle /\ [][NextMerkle]_vars

\* C16: for every non-empty list of leaf hashes and every index into it, the
\* proof of that leaf verifies against the root of the list.
C16_ProofVerifies ==
    reply.fn \in {"verifyMerkleProofRaw", "verifyMerkleProof"} => reply.ok

\* C17: the root of the empty leaf list is the SHA-256 digest of no bytes.
C17_EmptyRoot ==
    (reply.fn \in {"merkleRootHex", "merkleRootHexPadded", "computeUpperMerkleRootPadded"}
        /\ Len(pending[Library]) = 0) => reply.root = EmptyDigest

-----------------------------------------------------------------------------
(* Genesis: two fresh nodes of one chain build their block 0                *)

FreshNodes == {1, 2}
ChainIds == {<<"CP-A">>, <<"CP-B">>}
MaxClock == 3                    \* readings of time.Now() are 1..MaxClock
GenesisElapsed == {0, 1}         \* whole seconds the genesis nonce search may take
Revisions == {"mined", "first", "fixed"}

\* createGenesisBlock of the first ledger revision: the entry and the header
\* each read the clock; calculateHash covers index, timestamp, prev hash,
\* merkle root and nonce
createGenesisBlockFirst(entryNow, headerNow) ==
    LET entry == [content_id |-> "GENESIS", timestamp |-> entryNow]
        root == merkleRootHex(<<hashContentRecord(entry)>>)
    IN [index |-> 0, timestamp |-> headerNow, prev_hash |-> EmptyString,
        merkle_root |-> root, nonce |-> 0, entries |-> <<entry>>,
        block_hash |-> sha256Hex(<<"rec", 0, headerNow, EmptyString, root, 0>>)]

\* mineGenesisBlock with the measured search time in Elapsed
mineGenesisBlockTimed(cpID, elapsed) == [mineGenesisBlock(cpID) EXCEPT !.elapsed = elapsed]

\* what a fresh node with chain id id may build as block 0 under revision rev
GenesisOf(rev, id) ==
    IF rev = "mined" THEN {mineGenesisBlockTimed(id, e) : e \in GenesisElapsed}
    ELSE IF rev = "first"
    THEN {createGenesisBlockFirst(t1, t2) : t1 \in 1..MaxClock, t2 \in 1..MaxClock}
    ELSE {createGenesisBlock(id)}

\* newLowerChain on empty storage: build block 0, persist it, height 0, chain
\* id under the meta key; the mined revision then adjusts the difficulty
newLowerChain(n, rev, g) ==
    /\ ~HasBlock(n, 0)
    /\ ev[1] = "init" \/ ev[2] = rev
    /\ g \in GenesisOf(rev, meta[n])
    /\ rev = "first" => g.timestamp >= g.entries[1].timestamp
    /\ saveBlockToDB(n, g)
    /\ GlobalDifficulty' =
          IF rev = "mined"
          THEN [GlobalDifficulty EXCEPT ![n] = adjustDifficulty(n, 0, g.elapsed)]
          ELSE GlobalDifficulty
    /\ ev' = <<"newLowerChain", rev>>
    /\ UNCHANGED <<peers, pending, net, submitted, boot, peerPubKeys, isMining,
                   miningStop, tasks, recv, pbftVars, bootVars, laterVars>>

InitGenesis ==
    /\ \E id \in ChainIds : meta = [n \in FreshNodes |-> id]
    /\ peers = [n \in FreshNodes |-> <<>>]
    /\ store = [n \in FreshNodes |-> EmptyMap]
    /\ height = [n \in FreshNodes |-> -1]
    /\ GlobalDifficulty = [n \in FreshNodes |-> GenesisDifficulty]
    /\ ev = <<"init", "">>
    /\ pending = [n \in FreshNodes |-> <<>>]
    /\ net = {}
    /\ submitted = {}
    /\ boot = EmptyMap
    /\ isMining = EmptyMap
    /\ miningStop = EmptyMap
    /\ tasks = EmptyMap
    /\ recv = EmptyMap
    /\ peerPubKeys = EmptyMap
    /\ viewStates = EmptyMap
    /\ consensusInProgress = EmptyMap
    /\ foreign = 0
    /\ isBoot = EmptyMap
    /\ crashed = {}
    /\ watch = EmptyMap
    /\ cw = EmptyMap
    /\ mined = {}
    /\ anchorMap = EmptyMap
    /\ anchorDb = EmptyMap
    /\ cpBootMap = EmptyMap
    /\ reply = <<>>
    /\ misses = EmptyMap
    /\ kv = EmptyMap

NextGenesis ==
    \E n \in Nodes : \E rev \in Revisions : \E g \in GenesisOf(rev, meta[n]) :
        newLowerChain(n, rev, g)

SpecGenesis == InitGenesis /\ [][NextGenesis]_vars

\* C18: two fresh nodes that were started with the same chain id hold the
\* same block 0, every field and the block hash included.
C18_SameGenesis ==
    \A a, b \in Nodes :
        (HasBlock(a, 0) /\ HasBlock(b, 0) /\ meta[a] = meta[b]) => store[a][0] = store[b][0]

=============================================================================
